---- MODULE Spec2Model ----
(***************************************************************************)
(* Model of the SecretFlow worker: the cluster manager singleton           *)
(* (secretflow_task/cluster_initializer.py), the device manager singleton  *)
(* (secretflow_task/device_manager.py), the orchestrator                   *)
(* execute_secretflow_task (secretflow_task/task_executor.py) and the      *)
(* Celery wrapper execute_secretflow_celery_task                           *)
(* (secretflow_task/celery_tasks.py).                                      *)
(*                                                                         *)
(* These specifications are defined:                                       *)
(*   Spec         one queue message driven through the wrapper (or one     *)
(*                direct call of the orchestrator); every attempt finishes *)
(*                inside the soft time limit.                              *)
(*   SpecTimeout  Spec plus the delivery of the soft-timeout signal        *)
(*                (SoftTimeLimitExceeded, an Exception subclass) at most   *)
(*                once per attempt, at any statement of the orchestrator   *)
(*                or inside any of its blocking calls.                     *)
(*   SpecNotifier Spec with _publish_status calls that may fail.           *)
(*   SpecCluster  a client calling initialize_cluster / shutdown_cluster   *)
(*                on the cluster manager in any order.                     *)
(*   SpecThreads  two threads of one process constructing the device       *)
(*                manager and calling initialize_cluster /                 *)
(*                shutdown_cluster, interleaved statement by statement.    *)
(*   SpecDevices  a client calling initialize_devices / cleanup_devices    *)
(*                on the device manager, always with the same              *)
(*                configuration.                                           *)
(*   SpecDispatcher  a client calling register_task, dispatch and          *)
(*                clear_registry of TaskDispatcher in any order.           *)
(*   SpecQueue    one worker consuming two queue messages under the        *)
(*                acknowledgement, concurrency and time-limit settings of  *)
(*                celery_app.py, celery_tasks.py and worker.py.            *)
(*   SpecExecutor a client constructing a PSIExecutor and calling          *)
(*                validate_params / execute on it in any order.            *)
(*   SpecFactory  a client calling register / unregister of                *)
(*                AlgorithmRegistry and create_executor / clear_cache of   *)
(*                AlgorithmFactory in any order.                           *)
(*   SpecRoutes   one call of TaskRouteConfig.get_task_config with any     *)
(*                task name of bounded length.                             *)
(***************************************************************************)
EXTENDS Integers, Sequences, FiniteSets, TLC

VARIABLES
    cluster,    \* SecretFlowClusterInitializer fields
    sf,         \* the SecretFlow runtime: how often sf.init / sf.shutdown ran
    dm,         \* DeviceManager fields
    msg,        \* the queue message (task_params), immutable
    task,       \* the wrapper: request.retries, position, history of attempts
    run,        \* locals and position of the running execute_secretflow_task
    events,     \* status events published during the current attempt
    api_log,    \* calls made by the client of SpecCluster
    thr,        \* the threads of SpecThreads: position and locals of each
    dmcls,      \* DeviceManager class attributes and the instances created
    broker,     \* SpecQueue: the worker's pool and the state of each queue message
    registry,   \* SpecDispatcher: TaskDispatcher.TASK_REGISTRY and the last call
    executor,   \* SpecExecutor: one PSIExecutor and the calls made on it
    factory,    \* SpecFactory: AlgorithmRegistry, the factory's cache, the last call
    routes      \* SpecRoutes: a task name and what get_task_config returned for it

vars == <<cluster, sf, dm, msg, task, run, events, api_log, thr, dmcls, broker,
          registry, executor, factory, routes>>

(***************************************************************************)
(* Bounds and program constants                                            *)
(***************************************************************************)
MaxApiCalls == 5

\* operations each thread of SpecThreads starts
MaxThreadOps == 2

\* calls made by the client of SpecDevices
MaxDeviceCalls == 4

\* deliveries of one queue message in SpecQueue
MaxDeliveries == 3

\* calls made on the executor of SpecExecutor
MaxExecutorCalls == 3

\* pieces of a task name in SpecRoutes
MaxNameLen == 5

worker_prefetch_multiplier == 1

\* variant: one pool slot more
worker_concurrency_Two == worker_prefetch_multiplier + 1

worker_concurrency == 1

\* Celery's default; the repository sets it nowhere
acks_on_failure_or_timeout == TRUE

max_retries == 3

\* retry_kwargs["countdown"]
countdown == 60

retry_backoff == TRUE

retry_backoff_max == 600

retry_jitter == TRUE

None == 0

NoExc == "None"

Parties == {"alice", "bob"}

Retryable == {"ClusterInitError", "DeviceConfigError"}

HandlerErrors ==
    {"AlgorithmError", "ParameterValidationError", "DeviceConfigError", "RuntimeError"}

TASK_REGISTRY == {"psi"}

\* "one_party": a cluster_def whose nodes name alice only
SpuKinds == {"none", "valid", "one_party", "no_cluster_def", "bad_nodes"}

\* the configurations whose cluster_def reaches SPU(cluster_def=...)
SpuConstructible == {"valid", "one_party"}

TaskTypes == {"psi", "unknown_type", "missing"}

Messages == [spu : SpuKinds, heu : BOOLEAN, task_type : TaskTypes]

TryBody ==
    {"s_start", "s_cluster", "s_cluster_ok", "s_devices", "s_devices_ok",
     "s_dispatch", "s_metrics", "s_return"}

FinallyBody == {"f_devices", "f_cluster"}

\* variant: the cluster is shut down before the devices are cleaned
FinallyOrder_Reversed == <<"f_cluster", "f_devices">>

\* the statements of the finally block in their order (lines 330-338)
FinallyOrder == <<"f_devices", "f_cluster">>

FinallyEntry == FinallyOrder[1]

FinallyNext(p) == IF p = FinallyOrder[1] THEN FinallyOrder[2] ELSE "s_exit"

(***************************************************************************)
(* Status events                                                           *)
(***************************************************************************)
\* variant: cluster_initialized is published with the progress of cluster_init
Progress_NotAdvancing(stage) ==
    CASE stage = "task_started" -> 0
      [] stage = "cluster_init" -> 2
      [] stage = "cluster_initialized" -> 1
      [] stage = "device_creation" -> 3
      [] stage = "devices_initialized" -> 4
      [] stage = "task_execution" -> 5
      [] stage = "task_completed" -> 10
      [] OTHER -> -1

\* the "progress" entry of the event data of each stage, in tenths
\* (task_executor.py lines 136, 147, 163, 174, 202, 222, 279); -1 when the
\* data has no such entry
Progress(stage) ==
    CASE stage = "task_started" -> 0
      [] stage = "cluster_init" -> 1
      [] stage = "cluster_initialized" -> 2
      [] stage = "device_creation" -> 3
      [] stage = "devices_initialized" -> 4
      [] stage = "task_execution" -> 5
      [] stage = "task_completed" -> 10
      [] OTHER -> -1

Ev(status, stage, etype) ==
    [status |-> status, stage |-> stage, error_type |-> etype,
     progress |-> Progress(stage)]

\* the log of the _publish_status calls made
_publish_status(log, status, stage, etype) == Append(log, Ev(status, stage, etype))

\* what can happen inside one _publish_status call: the event is delivered,
\* building event_data raises (lines 20-27), the redis import fails (line
\* 55), or the Redis client raises (lines 58-66)
PublishOutcomes == {"ok", "construct_error", "import_error", "redis_error"}

\* status_notifier.py lines 49-73: both except clauses pass
_publish_to_redis(o) == [raised |-> NoExc, delivered |-> o = "ok"]

\* variant: the except clause of line 32 is missing
PublishResult_Propagates(o) ==
    LET inner == IF o = "construct_error"
                 THEN [raised |-> "ImportError", delivered |-> FALSE]
                 ELSE _publish_to_redis(o)
    IN [raised |-> inner.raised, delivered |-> inner.delivered]

\* status_notifier.py lines 18-34: what one _publish_status call gives its
\* caller; "except Exception: pass" discards whatever was raised inside
PublishResult(o) ==
    LET inner == IF o = "construct_error"
                 THEN [raised |-> "ImportError", delivered |-> FALSE]
                 ELSE _publish_to_redis(o)
    IN [raised |-> NoExc, delivered |-> inner.delivered]

(***************************************************************************)
(* SecretFlowClusterInitializer                                            *)
(***************************************************************************)
ClusterNew == [cluster_initialized |-> FALSE, initialization_time |-> None]

\* variant: the flag is set before sf.init and not cleared when it fails
initialize_cluster_FlagBeforeSetup(c, env, o) ==
    IF c.cluster_initialized
    THEN [ret |-> TRUE, cluster |-> c, sf |-> env]
    ELSE [ret |-> o = "ok",
          cluster |-> [cluster_initialized |-> TRUE,
                       initialization_time |-> IF o = "ok" THEN env.init_calls + 1
                                               ELSE c.initialization_time],
          sf |-> [env EXCEPT !.init_calls = @ + 1]]

\* variant: the already-initialized check of lines 48-50 is missing
initialize_cluster_NoGuard(c, env, o) ==
    IF o = "ok"
    THEN [ret |-> TRUE,
          cluster |-> [cluster_initialized |-> TRUE,
                       initialization_time |-> env.init_calls + 1],
          sf |-> [env EXCEPT !.init_calls = @ + 1]]
    ELSE [ret |-> FALSE,
          cluster |-> [c EXCEPT !.cluster_initialized = FALSE],
          sf |-> [env EXCEPT !.init_calls = @ + 1]]

\* o is what sf.init does if it is reached: "ok", "fail" or "timeout"
initialize_cluster(c, env, o) ==
    IF c.cluster_initialized
    THEN [ret |-> TRUE, cluster |-> c, sf |-> env]
    ELSE IF o = "ok"
         THEN [ret |-> TRUE,
               cluster |-> [cluster_initialized |-> TRUE,
                            initialization_time |-> env.init_calls + 1],
               sf |-> [env EXCEPT !.init_calls = @ + 1]]
         ELSE [ret |-> FALSE,
               cluster |-> [c EXCEPT !.cluster_initialized = FALSE],
               sf |-> [env EXCEPT !.init_calls = @ + 1]]

\* variant: a failing sf.shutdown escapes and the flag stays set
shutdown_cluster_FailureEscapes(c, env, o) ==
    IF ~c.cluster_initialized
    THEN [raised |-> FALSE, cluster |-> c, sf |-> env]
    ELSE [raised |-> o # "ok",
          cluster |-> [c EXCEPT !.cluster_initialized = (o # "ok")],
          sf |-> [env EXCEPT !.shutdown_calls = @ + 1]]

\* o is what sf.shutdown does if it is reached; both outcomes clear the flag
\* and neither leaves the method as an exception (lines 84-98)
shutdown_cluster(c, env, o) ==
    IF ~c.cluster_initialized
    THEN [raised |-> FALSE, cluster |-> c, sf |-> env]
    ELSE [raised |-> FALSE,
          cluster |-> [c EXCEPT !.cluster_initialized = FALSE],
          sf |-> [env EXCEPT !.shutdown_calls = @ + 1]]

is_cluster_ready(c) == c.cluster_initialized

get_initialization_time(c) == c.initialization_time

(***************************************************************************)
(* DeviceManager                                                           *)
(***************************************************************************)
DmNew == [devices |-> {}, device_init_times |-> {}]

\* parties named by spu_config["cluster_def"]["nodes"]
PartiesOf(spu) ==
    IF spu = "valid" THEN Parties
    ELSE IF spu = "one_party" THEN {"alice"}
    ELSE {}

\* variant: one failing party makes the whole PYU step return nothing
create_pyu_devices_AllOrNothing(d, parties, created) ==
    [devs |-> IF created = parties THEN created ELSE {},
     dm |-> [d EXCEPT !.device_init_times = @ \cup {"pyu"}]]

\* created: the parties whose PYU(party) succeeded
create_pyu_devices(d, parties, created) ==
    [devs |-> created,
     dm |-> [d EXCEPT !.device_init_times = @ \cup {"pyu"}]]

create_spu_device(d, spu, spu_ok) ==
    IF spu \notin SpuConstructible
    THEN [dev |-> {}, dm |-> d]
    ELSE IF spu_ok
         THEN [dev |-> {"spu"}, dm |-> [d EXCEPT !.device_init_times = @ \cup {"spu"}]]
         ELSE [dev |-> {}, dm |-> [d EXCEPT !.device_init_times = @ \cup {"spu_failed"}]]

create_heu_device(d, heu_ok) ==
    IF heu_ok
    THEN [dev |-> {"heu"}, dm |-> [d EXCEPT !.device_init_times = @ \cup {"heu"}]]
    ELSE [dev |-> {}, dm |-> [d EXCEPT !.device_init_times = @ \cup {"heu_failed"}]]

\* spu = "none" stands for an empty or absent spu_config
initialize_devices(d, spu, heu, created, spu_ok, heu_ok) ==
    IF spu = "bad_nodes"
    THEN [raised |-> TRUE, devices |-> {}, dm |-> d]
    ELSE
      LET parties == PartiesOf(spu)
          p  == IF parties # {}
                THEN create_pyu_devices(d, parties, created)
                ELSE [devs |-> {}, dm |-> d]
          d1 == [p.dm EXCEPT !.devices = @ \cup p.devs]
          s  == IF spu # "none"
                THEN create_spu_device(d1, spu, spu_ok)
                ELSE [dev |-> {}, dm |-> d1]
          d2 == [s.dm EXCEPT !.devices = @ \cup s.dev]
          h  == IF heu
                THEN create_heu_device(d2, heu_ok)
                ELSE [dev |-> {}, dm |-> d2]
          d3 == [h.dm EXCEPT !.devices = @ \cup h.dev]
      IN [raised |-> FALSE, devices |-> p.devs \cup s.dev \cup h.dev, dm |-> d3]

\* the devices that have a shutdown attribute (line 208; the comment of
\* line 207: a PYU needs no explicit shutdown, SPU and HEU do)
HasShutdown == {"spu", "heu"}

\* variant: the first failing device.shutdown() ends the cleanup
cleanup_devices_StopAtFailure(d, fails) ==
    IF fails = {}
    THEN [raised |-> FALSE, shut |-> d.devices \cap HasShutdown,
          dm |-> [devices |-> {}, device_init_times |-> {}]]
    ELSE [raised |-> TRUE, shut |-> fails, dm |-> d]

\* variant: the maps are not cleared
cleanup_devices_KeepsDevices(d, fails) ==
    [raised |-> FALSE, shut |-> d.devices \cap HasShutdown, dm |-> d]

\* fails: the held devices whose shutdown() raises; shut: the devices whose
\* shutdown() was called
cleanup_devices(d, fails) ==
    [raised |-> FALSE,
     shut |-> d.devices \cap HasShutdown,
     dm |-> [devices |-> {}, device_init_times |-> {}]]

get_initialized_devices(d) == d.devices

(***************************************************************************)
(* Threads and the DeviceManager class (device_manager.py lines 16-28)     *)
(***************************************************************************)
Threads == {"t1", "t2"}

\* inst: the instance cls() gave the thread, 0 before it did
ThreadNew == [pc |-> "idle", ops |-> 0, inst |-> 0, self |-> 0]

\* _instance: 0 is None, otherwise the number of the instance;
\* fields[i]: how often __init__ assigned _devices of instance i
DmClassNew == [_instance |-> 0, _initialized |-> FALSE, created |-> 0,
               fields |-> <<>>]

(***************************************************************************)
(* The worker and its queue (celery_app.py lines 39-47, worker.py 86-94)   *)
(***************************************************************************)
QueueMessages == {"m1", "m2"}

\* worker.py starts the worker with the solo pool; a worker started from
\* celery_app.py alone gets Celery's default pool, no worker_pool being set
Pools == {"solo", "prefork"}

MessageNew == [st |-> "queued",       \* queued, reserved, running, acked
               deliveries |-> 0,      \* how often the worker received it
               last_end |-> "none",   \* how its last execution ended
               over_limit |-> FALSE]  \* the body ran past time_limit

BrokerNew(pool) == [pool |-> pool, m |-> [q \in QueueMessages |-> MessageNew]]

(***************************************************************************)
(* TaskDispatcher (task_dispatcher.py)                                     *)
(***************************************************************************)
RegTypes == {"psi", "ss_lr", "unknown_type"}

Handlers == {"execute_psi", "execute_other"}

\* stands for "task_type is not a key of TASK_REGISTRY"
NoFunc == "not registered"

NoCall == [op |-> "none", task_type |-> "", func |-> NoFunc, args |-> <<>>,
           raised |-> NoExc, message |-> <<>>, called |-> <<>>,
           result |-> <<>>, reg_before |-> <<>>]

\* reg[t] is the function registered for t, NoFunc when t is not a key;
\* first[t] is the function of the first registration of t since the
\* registry was last empty
RegistryNew == [reg |-> [t \in RegTypes |-> NoFunc],
                first |-> [t \in RegTypes |-> NoFunc],
                last |-> NoCall]

\* variant: a second registration replaces the first
register_task_Overwrites(reg, task_type, func) ==
    [raised |-> NoExc, message |-> <<>>,
     reg |-> [reg EXCEPT ![task_type] = func]]

\* the decorator of lines 56-67 applied to func
register_task(reg, task_type, func) ==
    IF reg[task_type] # NoFunc
    THEN [raised |-> "ValueError",
          message |-> <<task_type, reg[task_type], func>>,
          reg |-> reg]
    ELSE [raised |-> NoExc, message |-> <<>>,
          reg |-> [reg EXCEPT ![task_type] = func]]

\* the keys of TASK_REGISTRY (line 128 returns them sorted)
list_supported_tasks(reg) == {t \in DOMAIN reg : reg[t] # NoFunc}

\* the handler func called with (devices, task_config); o is what it does
HandlerCall(func, devices, task_config, o) ==
    IF o = "ok"
    THEN [raised |-> NoExc, message |-> <<>>,
          result |-> <<func, devices, task_config>>]
    ELSE [raised |-> o, message |-> <<func, o>>, result |-> <<>>]

\* variant: an unregistered type is reported without the registered types
dispatch_ListsNothing(reg, task_type, devices, task_config, o) ==
    IF reg[task_type] = NoFunc
    THEN [raised |-> "ValueError", message |-> <<task_type, {}>>,
          called |-> <<>>, result |-> <<>>]
    ELSE LET h == HandlerCall(reg[task_type], devices, task_config, o)
         IN [raised |-> h.raised, message |-> h.message,
             called |-> <<<<reg[task_type], devices, task_config>>>>,
             result |-> h.result]

\* variant: a handler error is wrapped in RuntimeError
dispatch_WrapsError(reg, task_type, devices, task_config, o) ==
    IF reg[task_type] = NoFunc
    THEN [raised |-> "ValueError",
          message |-> <<task_type, list_supported_tasks(reg)>>,
          called |-> <<>>, result |-> <<>>]
    ELSE LET h == HandlerCall(reg[task_type], devices, task_config, o)
         IN [raised |-> IF h.raised = NoExc THEN NoExc ELSE "RuntimeError",
             message |-> h.message,
             called |-> <<<<reg[task_type], devices, task_config>>>>,
             result |-> h.result]

\* lines 94-113; called: the handler calls made, each with its arguments
dispatch(reg, task_type, devices, task_config, o) ==
    IF reg[task_type] = NoFunc
    THEN [raised |-> "ValueError",
          message |-> <<task_type, list_supported_tasks(reg)>>,
          called |-> <<>>, result |-> <<>>]
    ELSE LET h == HandlerCall(reg[task_type], devices, task_config, o)
         IN [raised |-> h.raised, message |-> h.message,
             called |-> <<<<reg[task_type], devices, task_config>>>>,
             result |-> h.result]

\* the two places of the handler at which the timeout signal is raised
\* "SoftTimeLimitExceeded in try" is the signal raised inside the try block
\* of the handler (inside spu.psi_csv or reveal)
HandlerSignals == {"SoftTimeLimitExceeded", "SoftTimeLimitExceeded in try"}

\* jobs/psi_task.py, execute_psi: what the call does, "ok" or the class it
\* raises.  o is what happens in it besides the device checks: "ok", an
\* exception class raised inside the try block (by _validate_psi_config,
\* spu.psi_csv or reveal), "SoftTimeLimitExceeded in try", or "SoftTimeLimitExceeded"
\* for the signal arriving at line 149, before the try block is entered
\* task_config["keys"] of the queue message names the parties of Parties
execute_psi(devices, task_config, o) ==
    IF o = "SoftTimeLimitExceeded" THEN o
    ELSE IF "spu" \notin devices \/ ~(Parties \subseteq devices)
    THEN "ValueError"                      \* lines 154-156 and 181-185
    ELSE IF o \in {"ok", "ValueError"} THEN o   \* lines 242 and 244-246
    ELSE "RuntimeError"                    \* lines 247-249

\* the registry once the job modules are imported: every key of
\* TASK_REGISTRY has its function
ImportedRegistry ==
    [t \in RegTypes |-> IF t \in TASK_REGISTRY THEN "execute_psi" ELSE NoFunc]

(***************************************************************************)
(* PSIExecutor (secretflow_task/algorithms/psi_executor.py) and its base   *)
(* class BaseTaskExecutor (base_executor.py)                               *)
(***************************************************************************)
\* the task_config an executor is constructed with: a valid PSI
\* configuration, or one with a single defect
PsiConfigs ==
    {"not_dict", "no_task_type", "empty_task_type", "wrong_task_type",
     "no_input_paths", "no_receiver_party", "valid"}

\* BaseTaskExecutor.__init__; validated is the attribute _validated
ExecutorNew(task_config) ==
    [task_config |-> task_config, validated |-> FALSE, log |-> <<>>]

\* BaseTaskExecutor.validate_params
BaseValidateParams(e) ==
    IF e.task_config \in {"not_dict", "no_task_type", "empty_task_type"}
    THEN [ret |-> FALSE, e |-> e]                           \* lines 32-43
    ELSE [ret |-> TRUE, e |-> [e EXCEPT !.validated = TRUE]]  \* lines 45-46

\* PSIExecutor.validate_params
validate_params(e) ==
    LET b == BaseValidateParams(e)
    IN IF ~b.ret
       THEN [raised |-> "ParameterValidationError", e |-> b.e]   \* line 51
       ELSE IF e.task_config # "valid"
       THEN [raised |-> "ParameterValidationError", e |-> b.e]   \* lines 54-137
       ELSE [raised |-> NoExc, e |-> [b.e EXCEPT !.validated = TRUE]]

\* PSIExecutor.execute; o is what the computation of lines 196-233 does
\* when it is reached.  skipped: line 192 found _validated set and went on
\* without calling validate_params
execute(e, o) ==
    IF e.task_config \in {"not_dict", "no_input_paths"}
    THEN \* line 185 raises, lines 235-257 turn it into AlgorithmError
         [raised |-> "AlgorithmError", validation_ran |-> FALSE,
          validation_raised |-> NoExc, skipped |-> FALSE,
          body_reached |-> FALSE, e |-> e]
    ELSE IF ~e.validated
    THEN LET v == validate_params(e)
         IN IF v.raised # NoExc
            THEN [raised |-> "AlgorithmError", validation_ran |-> TRUE,
                  validation_raised |-> v.raised, skipped |-> FALSE,
                  body_reached |-> FALSE, e |-> v.e]
            ELSE [raised |-> IF o = "ok" THEN NoExc ELSE "AlgorithmError",
                  validation_ran |-> TRUE, validation_raised |-> NoExc,
                  skipped |-> FALSE, body_reached |-> TRUE, e |-> v.e]
    ELSE [raised |-> IF o = "ok" THEN NoExc ELSE "AlgorithmError",
          validation_ran |-> FALSE, validation_raised |-> NoExc,
          skipped |-> TRUE, body_reached |-> TRUE, e |-> e]

(***************************************************************************)
(* AlgorithmRegistry and AlgorithmFactory (config/task_registry.py)        *)
(***************************************************************************)
AlgoNames == {"psi", "lr"}

\* stands for "no entry" in _registry and in _executor_cache
NoClass == "no class"

\* the registry after _register_builtin_algorithms and an AlgorithmFactory
\* after __init__
FactoryNew ==
    [reg |-> [n \in AlgoNames |->
                 IF n = "psi" THEN "PSIExecutor" ELSE "LogisticRegressionExecutor"],
     aliases |-> [a \in {"logistic_regression"} |-> "lr"],
     cache |-> [n \in AlgoNames \cup {"logistic_regression"} |-> NoClass],
     last |-> [op |-> "none", name |-> "", raised |-> NoExc, ret |-> FALSE,
                instance_of |-> NoClass]]

\* AlgorithmRegistry.register, lines 143-180
register(reg, name, executor_class, force) ==
    IF executor_class = "not an executor class" THEN [ret |-> FALSE, reg |-> reg]
    ELSE IF reg[name] # NoClass /\ ~force THEN [ret |-> FALSE, reg |-> reg]
    ELSE [ret |-> TRUE, reg |-> [reg EXCEPT ![name] = executor_class]]

unregister(reg, name) ==
    IF reg[name] # NoClass
    THEN [ret |-> TRUE, reg |-> [reg EXCEPT ![name] = NoClass]]
    ELSE [ret |-> FALSE, reg |-> reg]

\* actual_name is self._aliases.get(name, name)
is_registered(f, name) ==
    f.reg[IF name \in DOMAIN f.aliases THEN f.aliases[name] ELSE name] # NoClass

get_executor_class(f, name) ==
    f.reg[IF name \in DOMAIN f.aliases THEN f.aliases[name] ELSE name]

_get_executor_class_cached(f, task_type) ==
    IF f.cache[task_type] # NoClass
    THEN [cls |-> f.cache[task_type], cache |-> f.cache]
    ELSE LET executor_class == get_executor_class(f, task_type)
         IN [cls |-> executor_class,
             cache |-> IF executor_class # NoClass
                       THEN [f.cache EXCEPT ![task_type] = executor_class]
                       ELSE f.cache]

\* compatible: what _validate_compatibility finds for the task_config
create_executor(f, task_type, compatible) ==
    IF ~is_registered(f, task_type)
    THEN [raised |-> "ValueError", instance_of |-> NoClass, cache |-> f.cache]
    ELSE IF ~compatible
    THEN [raised |-> "ParameterValidationError", instance_of |-> NoClass,
          cache |-> f.cache]
    ELSE LET c == _get_executor_class_cached(f, task_type)
         IN [raised |-> NoExc, instance_of |-> c.cls, cache |-> c.cache]

(***************************************************************************)
(* TaskRouteConfig (config/task_routes.py).  A task name or a pattern is   *)
(* the sequence of its pieces, so that "tasks.web.*" is                    *)
(* <<"tasks", ".", "web", ".", "*">>                                       *)
(***************************************************************************)
NoConfig == [queue |-> "None", priority |-> 0, soft_time_limit |-> 0,
             time_limit |-> 0]

\* a dictionary is the sequence of its items in insertion order
web_task_routes ==
    << [pattern |-> <<"tasks", ".", "web", ".", "*">>,
        config |-> [queue |-> "web_queue", priority |-> 1,
                    soft_time_limit |-> 300, time_limit |-> 600]] >>

secretflow_task_routes ==
    << [pattern |-> <<"tasks", ".", "secretflow", ".", "*">>,
        config |-> [queue |-> "secretflow_queue", priority |-> 2,
                    soft_time_limit |-> 3600, time_limit |-> 7200]],
       [pattern |-> <<"tasks", ".", "secretflow", ".", "health_check">>,
        config |-> [queue |-> "secretflow_queue", priority |-> 1,
                    soft_time_limit |-> 60, time_limit |-> 120]] >>

\* update: a key already present keeps its place and takes the new value,
\* the other items of u are appended in their order
get_all_routes ==
    LET update(d, u) ==
            LET Idx(x, k) == CHOOSE j \in 1..Len(x) : x[j].pattern = k
                Has(x, k) == \E j \in 1..Len(x) : x[j].pattern = k
            IN [i \in 1..Len(d) |->
                   IF Has(u, d[i].pattern) THEN u[Idx(u, d[i].pattern)] ELSE d[i]]
               \o SelectSeq(u, LAMBDA x : ~Has(d, x.pattern))
    IN update(update(<<>>, web_task_routes), secretflow_task_routes)

_match_pattern(task_name, pattern) ==
    IF Len(pattern) >= 2 /\ SubSeq(pattern, Len(pattern) - 1, Len(pattern)) = <<".", "*">>
    THEN LET prefix == SubSeq(pattern, 1, Len(pattern) - 2)
         IN /\ Len(task_name) >= Len(prefix)
            /\ SubSeq(task_name, 1, Len(prefix)) = prefix
    ELSE IF pattern = <<"*">> THEN TRUE
    ELSE task_name = pattern

\* the configuration of the first pattern, in the order of get_all_routes,
\* that matches; NoConfig stands for None
get_task_config(task_name) ==
    LET all == get_all_routes
        hits == {i \in 1..Len(all) : _match_pattern(task_name, all[i].pattern)}
        Min(S) == CHOOSE i \in S : \A j \in S : i <= j
    IN IF hits = {} THEN NoConfig ELSE all[Min(hits)].config

(***************************************************************************)
(* Initial states                                                          *)
(***************************************************************************)
RunNew ==
    [pc |-> "idle",
     cluster_initializer |-> FALSE,   \* local is not None
     device_manager |-> FALSE,        \* local is not None
     devices |-> {},
     exc |-> NoExc,                   \* exception in flight
     result |-> FALSE,                \* final_result was built
     calls |-> <<>>,                  \* manager calls made by the finally block
     timed_out |-> FALSE,             \* the soft-timeout signal was delivered
     init_cluster_ok |-> FALSE,       \* initialize_cluster returned True
     init_devices |-> "no",           \* "no", "called", "nonempty"
     dispatched |-> FALSE,            \* TaskDispatcher.dispatch was called
     handler_raised |-> NoExc,        \* what the registered handler raised
     at_finally |-> NoExc,            \* exception in flight on entry of finally
     cleanup_raised |-> FALSE,        \* an exception was raised inside finally
     pyu_created |-> {},              \* the parties whose PYU(party) succeeded
     publish_failed |-> FALSE,        \* some status event was not delivered
     metrics |-> <<>>]                \* what _collect_performance_metrics returned

TaskNew(caller) ==
    [caller |-> caller,
     wpc |-> "queued",
     retries |-> 0,
     runs |-> 0,
     attempt_errs |-> <<>>,           \* what each attempt raised
     last_timed_out |-> FALSE,        \* whether the signal hit the last attempt
     countdowns |-> <<>>,             \* the delay of each retry, in seconds
     outcomes |-> <<>>]               \* what the wrapper made of each attempt

InitCommon ==
    /\ cluster = ClusterNew
    /\ sf = [init_calls |-> 0, shutdown_calls |-> 0]
    /\ dm = DmNew
    /\ run = RunNew
    /\ events = <<>>
    /\ api_log = <<>>
    /\ thr = [t \in Threads |-> ThreadNew]
    /\ dmcls = DmClassNew
    /\ broker = BrokerNew("solo")
    /\ registry = RegistryNew
    /\ executor = ExecutorNew("none")
    /\ factory = FactoryNew
    /\ routes = [task_name |-> <<>>, called |-> FALSE, result |-> NoConfig]

Init ==
    /\ InitCommon
    /\ msg \in Messages
    /\ task \in {TaskNew(c) : c \in {"celery", "direct"}}

(***************************************************************************)
(* execute_secretflow_celery_task: entry                                   *)
(***************************************************************************)
_validate_task_params(m) == m.task_type # "missing"

BeginRun == [RunNew EXCEPT !.pc = "s_start"]

\* o: what happens in the _publish_status call of lines 254-264; an
\* exception leaving it would be handled like the ValueError of line 268
WrapperStart(o) ==
    /\ task.caller = "celery"
    /\ task.wpc = "queued"
    /\ LET ev == _publish_status(<<>>, "RUNNING", "celery_task_started", "")
           p  == PublishResult(o)
           e  == IF p.raised # NoExc THEN p.raised
                 ELSE IF _validate_task_params(msg) THEN NoExc ELSE "ValueError"
       IN IF e = NoExc
          THEN /\ task' = [task EXCEPT !.wpc = "running", !.runs = @ + 1]
               /\ run' = [BeginRun EXCEPT !.publish_failed = ~p.delivered]
               /\ events' = ev
          ELSE /\ task' = [task EXCEPT !.wpc = "failed",
                                       !.attempt_errs = Append(@, e),
                                       !.last_timed_out = FALSE,
                                       !.outcomes = Append(@, "FAILURE")]
               /\ run' = RunNew
               /\ events' = _publish_status(ev, "FAILURE", "task_failed_final", e)
    /\ UNCHANGED <<cluster, sf, dm, msg, api_log, thr, dmcls, broker, registry,
                 executor, factory, routes>>

DirectCall ==
    /\ task.caller = "direct"
    /\ task.wpc = "queued"
    /\ task' = [task EXCEPT !.wpc = "running", !.runs = @ + 1]
    /\ run' = BeginRun
    /\ events' = <<>>
    /\ UNCHANGED <<cluster, sf, dm, msg, api_log, thr, dmcls, broker, registry,
                 executor, factory, routes>>

(***************************************************************************)
(* execute_secretflow_task, one action per group of statements             *)
(***************************************************************************)
InRun(p) == task.wpc = "running" /\ run.pc = p

\* an exception raised inside the try body reaches "except Exception"
Raise(r, e) == [r EXCEPT !.exc = e, !.pc = "s_except"]

\* the run after a statement group that publishes: normal is what the group
\* makes of r when the _publish_status calls return, o what happens in them
AfterPublish(r, o, normal) ==
    LET p == PublishResult(o)
        failed == r.publish_failed \/ ~p.delivered
    IN IF p.raised = NoExc
       THEN [normal EXCEPT !.publish_failed = failed]
       ELSE Raise([r EXCEPT !.publish_failed = failed], p.raised)

\* lines 110-148: task_started and cluster_init are published
StepStart(o) ==
    /\ InRun("s_start")
    /\ events' = _publish_status(
                     _publish_status(events, "RUNNING", "task_started", ""),
                     "RUNNING", "cluster_init", "")
    /\ run' = AfterPublish(run, o, [run EXCEPT !.pc = "s_cluster"])
    /\ UNCHANGED <<cluster, sf, dm, msg, task, api_log, thr, dmcls, broker, registry,
                 executor, factory, routes>>

\* variant: the return value of initialize_cluster is not checked
ClusterResult_Unchecked(r, ret) ==
    [r EXCEPT !.cluster_initializer = TRUE, !.init_cluster_ok = ret,
              !.pc = "s_cluster_ok"]

\* lines 150-152: the singleton is obtained and initialize_cluster is called
ClusterResult(r, ret) ==
    IF ret
    THEN [r EXCEPT !.cluster_initializer = TRUE, !.init_cluster_ok = TRUE,
                   !.pc = "s_cluster_ok"]
    ELSE Raise([r EXCEPT !.cluster_initializer = TRUE], "ClusterInitError")

StepCluster(o) ==
    /\ InRun("s_cluster")
    /\ cluster.cluster_initialized => o = "ok"
    /\ o = "timeout" => ~run.timed_out
    /\ LET i == initialize_cluster(cluster, sf, o)
       IN /\ cluster' = i.cluster
          /\ sf' = i.sf
          /\ run' = [ClusterResult(run, i.ret) EXCEPT
                        !.timed_out = @ \/ (o = "timeout")]
    /\ UNCHANGED <<dm, msg, task, events, api_log, thr, dmcls, broker, registry,
                 executor, factory, routes>>

\* lines 154-175: cluster_initialized and device_creation are published
StepClusterOk(o) ==
    /\ InRun("s_cluster_ok")
    /\ events' = _publish_status(
                     _publish_status(events, "RUNNING", "cluster_initialized", ""),
                     "RUNNING", "device_creation", "")
    /\ run' = AfterPublish(run, o, [run EXCEPT !.pc = "s_devices"])
    /\ UNCHANGED <<cluster, sf, dm, msg, task, api_log, thr, dmcls, broker, registry,
                 executor, factory, routes>>

\* lines 177-187: the singleton is obtained and initialize_devices is called
DevicesResult(r, i) ==
    LET r1 == [r EXCEPT !.device_manager = TRUE, !.init_devices = "called"]
    IN IF i.raised THEN Raise(r1, "TypeError")
       ELSE IF i.devices = {} THEN Raise(r1, "DeviceConfigError")
       ELSE [r1 EXCEPT !.devices = i.devices, !.init_devices = "nonempty",
                       !.pc = "s_devices_ok"]

\* some constructor call PYU(), SPU() or HEU() was reached and failed
SomeCreationFailed(m, created, spu_ok, heu_ok) ==
    \/ created # PartiesOf(m.spu)
    \/ m.spu \in SpuConstructible /\ ~spu_ok
    \/ m.heu /\ ~heu_ok

\* to: the soft-timeout signal is what made a constructor call fail
StepDevices(created, spu_ok, heu_ok, to) ==
    /\ InRun("s_devices")
    /\ created \subseteq PartiesOf(msg.spu)
    /\ spu_ok => msg.spu \in SpuConstructible
    /\ heu_ok => msg.heu
    /\ msg.spu = "bad_nodes" => ~heu_ok
    /\ to => /\ ~run.timed_out
             /\ msg.spu # "bad_nodes"
             /\ SomeCreationFailed(msg, created, spu_ok, heu_ok)
    /\ LET i == initialize_devices(dm, msg.spu, msg.heu, created, spu_ok, heu_ok)
       IN /\ dm' = i.dm
          /\ run' = [DevicesResult(run, i) EXCEPT !.timed_out = @ \/ to,
                                                  !.pyu_created = created]
    /\ UNCHANGED <<cluster, sf, msg, task, events, api_log, thr, dmcls, broker, registry,
                 executor, factory, routes>>

\* variant: a missing task_type is reported as a retryable error
TaskTypeCheck_Retryable(r, task_type) ==
    IF task_type = "missing" THEN Raise(r, "DeviceConfigError")
    ELSE [r EXCEPT !.pc = "s_dispatch"]

\* lines 212-215: task_type = "missing" stands for an absent or empty
\* task_config["task_type"]
TaskTypeCheck(r, task_type) ==
    IF task_type = "missing" THEN Raise(r, "AlgorithmError")
    ELSE [r EXCEPT !.pc = "s_dispatch"]

\* lines 189-223: devices_initialized, the task_type check, task_execution
StepDevicesOk(o) ==
    /\ InRun("s_devices_ok")
    /\ LET ev == _publish_status(events, "RUNNING", "devices_initialized", "")
           n  == TaskTypeCheck(run, msg.task_type)
       IN /\ events' = IF n.pc = "s_dispatch"
                        THEN _publish_status(ev, "RUNNING", "task_execution", "")
                        ELSE ev
          /\ run' = AfterPublish(run, o, n)
    /\ UNCHANGED <<cluster, sf, dm, msg, task, api_log, thr, dmcls, broker, registry,
                 executor, factory, routes>>

\* line 227: TaskDispatcher.dispatch; h is what happens inside the registered
\* handler (see execute_psi)
DispatchResult(r, task_type, h) ==
    LET r1 == [r EXCEPT !.dispatched = TRUE]
        d  == dispatch(ImportedRegistry, task_type, r.devices, "task_config",
                       execute_psi(r.devices, "task_config", h))
    IN IF d.raised = NoExc THEN [r1 EXCEPT !.pc = "s_metrics"]
       ELSE Raise([r1 EXCEPT !.handler_raised =
                                  IF d.called # <<>> THEN d.raised ELSE @],
                  d.raised)

StepDispatch(h) ==
    /\ InRun("s_dispatch")
    /\ msg.task_type \notin TASK_REGISTRY => h = "ok"
    /\ h \in HandlerSignals => ~run.timed_out
    /\ h = "SoftTimeLimitExceeded in try" =>
           execute_psi(run.devices, "task_config", "ok") = "ok"
    /\ run' = [DispatchResult(run, msg.task_type, h) EXCEPT
                  !.timed_out = @ \/ (h \in HandlerSignals)]
    /\ UNCHANGED <<cluster, sf, dm, msg, task, events, api_log, thr, dmcls, broker, registry,
                 executor, factory, routes>>

\* the keys of the dictionary returned for a total time of total_time
_collect_performance_metrics(total_time) ==
    {"total_execution_time", "cluster_init_time", "device_init_time",
     "algorithm_exec_time", "overhead_time"}
    \cup (IF total_time > 0
          THEN {"cluster_init_percentage", "device_init_percentage",
                "algorithm_exec_percentage"}
          ELSE {})

\* lines 229-281: metrics, final_result, SUCCESS is published
StepMetrics(o, total_time) ==
    /\ InRun("s_metrics")
    /\ events' = _publish_status(events, "SUCCESS", "task_completed", "")
    /\ LET r == [run EXCEPT !.metrics = Append(@,
                     [total_time |-> total_time,
                      keys |-> _collect_performance_metrics(total_time)])]
       IN run' = AfterPublish(r, o, [r EXCEPT !.result = TRUE, !.pc = "s_return"])
    /\ UNCHANGED <<cluster, sf, dm, msg, task, api_log, thr, dmcls, broker, registry,
                 executor, factory, routes>>

\* lines 283-291: return final_result, which enters the finally block
StepReturn ==
    /\ InRun("s_return")
    /\ run' = [run EXCEPT !.pc = FinallyEntry, !.at_finally = NoExc]
    /\ UNCHANGED <<cluster, sf, dm, msg, task, events, api_log, thr, dmcls, broker, registry,
                 executor, factory, routes>>

\* variant: the exception is wrapped before it is re-raised
ExceptBlock_Wraps(r) ==
    [r EXCEPT !.pc = FinallyEntry, !.at_finally = "SecretFlowTaskError",
              !.exc = "SecretFlowTaskError", !.result = FALSE]

\* lines 293-323: FAILURE is published and the exception is re-raised
ExceptBlock(r) == [r EXCEPT !.pc = FinallyEntry, !.at_finally = r.exc, !.result = FALSE]

\* an exception raised inside the except block replaces the one in flight
StepExcept(o) ==
    /\ InRun("s_except")
    /\ events' = _publish_status(events, "FAILURE", "task_failed", run.exc)
    /\ LET p == PublishResult(o)
           r == [run EXCEPT !.publish_failed = @ \/ ~p.delivered]
       IN run' = IF p.raised = NoExc
                 THEN ExceptBlock(r)
                 ELSE ExceptBlock([r EXCEPT !.exc = p.raised])
    /\ UNCHANGED <<cluster, sf, dm, msg, task, api_log, thr, dmcls, broker, registry,
                 executor, factory, routes>>

\* variant: devices are cleaned whether or not the device manager was obtained
FinallyDevices_Always(r, d, fails) ==
    [run |-> [r EXCEPT !.calls = Append(@, "cleanup_devices"),
                       !.pc = FinallyNext("f_devices")],
     dm |-> cleanup_devices(d, fails).dm]

\* lines 327-333: if device_manager: device_manager.cleanup_devices()
FinallyDevices(r, d, fails) ==
    IF r.device_manager
    THEN [run |-> [r EXCEPT !.calls = Append(@, "cleanup_devices"),
                            !.pc = FinallyNext("f_devices")],
          dm |-> cleanup_devices(d, fails).dm]
    ELSE [run |-> [r EXCEPT !.pc = FinallyNext("f_devices")], dm |-> d]

StepFinallyDevices ==
    /\ InRun("f_devices")
    /\ \E fails \in SUBSET (dm.devices \cap HasShutdown) :
           LET f == FinallyDevices(run, dm, fails)
           IN run' = f.run /\ dm' = f.dm
    /\ UNCHANGED <<cluster, sf, msg, task, events, api_log, thr, dmcls, broker, registry,
                 executor, factory, routes>>

\* variant: the cluster is shut down only when no exception is in flight
FinallyCluster_OnlyOnSuccess(r, c, env, o) ==
    IF r.cluster_initializer /\ r.exc = NoExc
    THEN LET s == shutdown_cluster(c, env, o)
         IN [run |-> [r EXCEPT !.calls = Append(@, "shutdown_cluster"),
                               !.pc = FinallyNext("f_cluster")],
             cluster |-> s.cluster, sf |-> s.sf]
    ELSE [run |-> [r EXCEPT !.pc = FinallyNext("f_cluster")], cluster |-> c, sf |-> env]

\* lines 336-340: if cluster_initializer: cluster_initializer.shutdown_cluster()
FinallyCluster(r, c, env, o) ==
    IF r.cluster_initializer
    THEN LET s == shutdown_cluster(c, env, o)
         IN [run |-> [r EXCEPT !.calls = Append(@, "shutdown_cluster"),
                               !.pc = FinallyNext("f_cluster")],
             cluster |-> s.cluster, sf |-> s.sf]
    ELSE [run |-> [r EXCEPT !.pc = FinallyNext("f_cluster")], cluster |-> c, sf |-> env]

StepFinallyCluster(o) ==
    /\ InRun("f_cluster")
    /\ ~(run.cluster_initializer /\ cluster.cluster_initialized) => o = "ok"
    /\ o = "timeout" => ~run.timed_out
    /\ LET f == FinallyCluster(run, cluster, sf, o)
       IN /\ run' = [f.run EXCEPT !.timed_out = @ \/ (o = "timeout")]
          /\ cluster' = f.cluster
          /\ sf' = f.sf
    /\ UNCHANGED <<dm, msg, task, events, api_log, thr, dmcls, broker, registry,
                 executor, factory, routes>>

(***************************************************************************)
(* execute_secretflow_celery_task: what happens to the orchestrator's      *)
(* result or exception (lines 289-402, Task.retry, on_retry, on_failure)   *)
(***************************************************************************)
\* variant: one retry too many
retry_OffByOne(retries) == IF retries > max_retries THEN "FAILURE" ELSE "RETRY"

\* Task.retry raises the original exception once request.retries + 1 exceeds
\* max_retries and otherwise re-queues the message and raises Retry
retry(retries) == IF retries + 1 > max_retries THEN "FAILURE" ELSE "RETRY"

\* the largest delay the backoff settings of the class allow for a retry
\* after `retries` earlier ones (retry_backoff = True is factor 1); with
\* retry_jitter the delay is drawn from 0 up to it
get_exponential_backoff_interval(retries) ==
    IF retry_backoff
    THEN IF 2^retries < retry_backoff_max THEN 2^retries ELSE retry_backoff_max
    ELSE countdown

\* line 373: self.retry(exc=e, countdown=self.retry_kwargs.get("countdown", 60))
RetryCountdown(retries) == countdown

\* variant: every error but the soft timeout is retried
WrapperDecision_RetryAll(e, retries) ==
    IF e = NoExc THEN "SUCCESS"
    ELSE IF e = "SoftTimeLimitExceeded" THEN "FAILURE"
    ELSE IF retries + 1 > max_retries THEN "FAILURE" ELSE "RETRY"

\* the except clauses of the wrapper, in their order
WrapperDecision(e, retries) ==
    IF e = NoExc THEN "SUCCESS"
    ELSE IF e = "SoftTimeLimitExceeded" THEN "FAILURE"
    ELSE IF e \in Retryable THEN retry(retries)
    ELSE "FAILURE"

\* variant: on_failure also runs for an attempt that is retried
WrapperEvents_FinalOnRetry(log, e, decision) ==
    LET l1 == IF e = "SoftTimeLimitExceeded"
              THEN _publish_status(log, "FAILURE", "task_timeout", e)
              ELSE log
    IN IF decision = "RETRY"
       THEN _publish_status(_publish_status(l1, "RETRY", "task_retrying", e),
                            "FAILURE", "task_failed_final", e)
       ELSE IF decision = "FAILURE"
            THEN _publish_status(l1, "FAILURE", "task_failed_final", e)
       ELSE l1

\* events published by the wrapper and by on_retry / on_failure
WrapperEvents(log, e, decision) ==
    LET l1 == IF e = "SoftTimeLimitExceeded"
              THEN _publish_status(log, "FAILURE", "task_timeout", e)
              ELSE log
    IN IF decision = "RETRY" THEN _publish_status(l1, "RETRY", "task_retrying", e)
       ELSE IF decision = "FAILURE"
            THEN _publish_status(l1, "FAILURE", "task_failed_final", e)
       ELSE l1

WrapperFinish ==
    /\ task.caller = "celery"
    /\ InRun("s_exit")
    /\ LET d == WrapperDecision(run.exc, task.retries)
       IN /\ events' = WrapperEvents(events, run.exc, d)
          /\ task' = [task EXCEPT
                 !.wpc = IF d = "RETRY" THEN "queued"
                         ELSE IF d = "SUCCESS" THEN "succeeded" ELSE "failed",
                 !.retries = IF d = "RETRY" THEN @ + 1 ELSE @,
                 !.attempt_errs = Append(@, run.exc),
                 !.last_timed_out = run.timed_out,
                 !.countdowns = IF d = "RETRY"
                                THEN Append(@, RetryCountdown(task.retries))
                                ELSE @,
                 !.outcomes = Append(@, d)]
    /\ run' = RunNew
    /\ UNCHANGED <<cluster, sf, dm, msg, api_log, thr, dmcls, broker, registry,
                 executor, factory, routes>>

\* a direct caller gets the TaskResult or the exception
DirectFinish ==
    /\ task.caller = "direct"
    /\ InRun("s_exit")
    /\ task' = [task EXCEPT
           !.wpc = IF run.exc = NoExc THEN "succeeded" ELSE "failed",
           !.attempt_errs = Append(@, run.exc),
           !.last_timed_out = run.timed_out,
           !.outcomes = Append(@, IF run.exc = NoExc THEN "SUCCESS" ELSE "FAILURE")]
    /\ run' = [run EXCEPT !.pc = "done"]
    /\ UNCHANGED <<cluster, sf, dm, msg, events, api_log, thr, dmcls, broker, registry,
                 executor, factory, routes>>

(***************************************************************************)
(* The soft-timeout signal delivered between two statements of the         *)
(* orchestrator: SoftTimeLimitExceeded is raised at the current statement  *)
(***************************************************************************)
\* inside the try body: caught by "except Exception" (line 293)
SignalInTry ==
    /\ task.wpc = "running"
    /\ run.pc \in TryBody
    /\ ~run.timed_out
    /\ run' = Raise([run EXCEPT !.timed_out = TRUE], "SoftTimeLimitExceeded")
    /\ UNCHANGED <<cluster, sf, dm, msg, task, events, api_log, thr, dmcls, broker, registry,
                 executor, factory, routes>>

\* inside the except block, before or after FAILURE was published: the new
\* exception replaces the one being handled
SignalInExcept(published) ==
    /\ InRun("s_except")
    /\ ~run.timed_out
    /\ events' = IF published
                 THEN _publish_status(events, "FAILURE", "task_failed", run.exc)
                 ELSE events
    /\ run' = [run EXCEPT !.timed_out = TRUE, !.exc = "SoftTimeLimitExceeded",
                          !.at_finally = "SoftTimeLimitExceeded",
                          !.result = FALSE, !.pc = FinallyEntry]
    /\ UNCHANGED <<cluster, sf, dm, msg, task, api_log, thr, dmcls, broker, registry,
                 executor, factory, routes>>

\* variant: the exception raised by the cleanup leaves the finally block
FinallyExcept_Propagates(r, inside) ==
    [r EXCEPT !.timed_out = TRUE, !.cleanup_raised = TRUE, !.pc = "s_exit",
              !.exc = "SoftTimeLimitExceeded", !.result = FALSE]

\* inside the finally block: caught and logged by "except Exception" (line 342),
\* the rest of the cleanup is skipped. inside: the manager method had been entered
FinallyExcept(r, inside) ==
    LET name == IF r.pc = "f_devices" THEN "cleanup_devices" ELSE "shutdown_cluster"
        held == IF r.pc = "f_devices" THEN r.device_manager ELSE r.cluster_initializer
    IN [r EXCEPT !.timed_out = TRUE, !.cleanup_raised = TRUE, !.pc = "s_exit",
                 !.calls = IF inside /\ held THEN Append(@, name) ELSE @]

SignalInFinally(inside) ==
    /\ task.wpc = "running"
    /\ run.pc \in FinallyBody
    /\ ~run.timed_out
    /\ inside => IF run.pc = "f_devices" THEN run.device_manager
                 ELSE run.cluster_initializer
    /\ run' = FinallyExcept(run, inside)
    /\ UNCHANGED <<cluster, sf, dm, msg, task, events, api_log, thr, dmcls, broker, registry,
                 executor, factory, routes>>

(***************************************************************************)
(* A client of the cluster manager                                         *)
(***************************************************************************)
InitCluster ==
    /\ InitCommon
    /\ msg = [spu |-> "none", heu |-> FALSE, task_type |-> "psi"]
    /\ task = [TaskNew("api") EXCEPT !.wpc = "api"]

ApiInitialize(o) ==
    /\ task.wpc = "api"
    /\ Len(api_log) < MaxApiCalls
    /\ cluster.cluster_initialized => o = "ok"
    /\ LET i == initialize_cluster(cluster, sf, o)
       IN /\ cluster' = i.cluster
          /\ sf' = i.sf
          /\ api_log' = Append(api_log,
                 [op |-> "initialize_cluster", ret |-> i.ret,
                  outcome |-> o, raised |-> FALSE,
                  ready_before |-> is_cluster_ready(cluster),
                  ready_after |-> is_cluster_ready(i.cluster),
                  setup |-> i.sf.init_calls - sf.init_calls])
    /\ UNCHANGED <<dm, msg, task, run, events, thr, dmcls, broker, registry,
                 executor, factory, routes>>

ApiShutdown(o) ==
    /\ task.wpc = "api"
    /\ Len(api_log) < MaxApiCalls
    /\ ~cluster.cluster_initialized => o = "ok"
    /\ LET s == shutdown_cluster(cluster, sf, o)
       IN /\ cluster' = s.cluster
          /\ sf' = s.sf
          /\ api_log' = Append(api_log,
                 [op |-> "shutdown_cluster", ret |-> TRUE,
                  outcome |-> o, raised |-> s.raised,
                  ready_before |-> is_cluster_ready(cluster),
                  ready_after |-> is_cluster_ready(s.cluster),
                  setup |-> s.sf.shutdown_calls - sf.shutdown_calls])
    /\ UNCHANGED <<dm, msg, task, run, events, thr, dmcls, broker, registry,
                 executor, factory, routes>>

(***************************************************************************)
(* A client of the device manager; msg holds the configuration it passes   *)
(* to every initialize_devices call                                        *)
(***************************************************************************)
InitDevices ==
    /\ InitCommon
    /\ msg \in {m \in Messages : m.task_type = "psi"}
    /\ task = [TaskNew("devices") EXCEPT !.wpc = "devices"]

ApiInitializeDevices(created, spu_ok, heu_ok) ==
    /\ task.wpc = "devices"
    /\ Len(api_log) < MaxDeviceCalls
    /\ created \subseteq PartiesOf(msg.spu)
    /\ spu_ok => msg.spu \in SpuConstructible
    /\ heu_ok => msg.heu
    /\ msg.spu = "bad_nodes" => ~heu_ok
    /\ LET i == initialize_devices(dm, msg.spu, msg.heu, created, spu_ok, heu_ok)
       IN /\ dm' = i.dm
          /\ api_log' = Append(api_log,
                 [op |-> "initialize_devices", raised |-> i.raised,
                  ret |-> i.devices, env |-> <<created, spu_ok, heu_ok>>,
                  shut |-> {}, held_before |-> dm.devices,
                  held_after |-> i.dm.devices,
                  times_after |-> i.dm.device_init_times])
    /\ UNCHANGED <<cluster, sf, msg, task, run, events, thr, dmcls, broker, registry,
                 executor, factory, routes>>

ApiCleanupDevices(fails) ==
    /\ task.wpc = "devices"
    /\ Len(api_log) < MaxDeviceCalls
    /\ fails \subseteq dm.devices \cap HasShutdown
    /\ LET c == cleanup_devices(dm, fails)
       IN /\ dm' = c.dm
          /\ api_log' = Append(api_log,
                 [op |-> "cleanup_devices", raised |-> c.raised,
                  ret |-> {}, env |-> <<fails, FALSE, FALSE>>,
                  shut |-> c.shut, held_before |-> dm.devices,
                  held_after |-> c.dm.devices,
                  times_after |-> c.dm.device_init_times])
    /\ UNCHANGED <<cluster, sf, msg, task, run, events, thr, dmcls, broker, registry,
                 executor, factory, routes>>

(***************************************************************************)
(* A client of TaskDispatcher                                              *)
(***************************************************************************)
InitDispatcher ==
    /\ InitCommon
    /\ msg = [spu |-> "none", heu |-> FALSE, task_type |-> "psi"]
    /\ task = [TaskNew("dispatcher") EXCEPT !.wpc = "dispatcher"]

ApiRegisterTask(task_type, func) ==
    /\ task.wpc = "dispatcher"
    /\ LET g == register_task(registry.reg, task_type, func)
       IN registry' =
            [reg |-> g.reg,
             first |-> IF registry.first[task_type] = NoFunc
                       THEN [registry.first EXCEPT ![task_type] = func]
                       ELSE registry.first,
             last |-> [op |-> "register_task", task_type |-> task_type,
                       func |-> func, args |-> <<>>, raised |-> g.raised,
                       message |-> g.message, called |-> <<>>,
                       result |-> <<>>, reg_before |-> <<registry.reg>>]]
    /\ UNCHANGED <<cluster, sf, dm, msg, task, run, events, api_log, thr, dmcls, broker,
                 executor, factory, routes>>

\* the registry is a class attribute that dispatch only reads
ApiDispatch(task_type, devices, task_config, o) ==
    /\ task.wpc = "dispatcher"
    /\ registry.reg[task_type] = NoFunc => o = "ok"
    /\ LET d == dispatch(registry.reg, task_type, devices, task_config, o)
       IN registry' =
            [registry EXCEPT
               !.last = [op |-> "dispatch", task_type |-> task_type,
                         func |-> NoFunc, args |-> <<devices, task_config, o>>,
                         raised |-> d.raised, message |-> d.message,
                         called |-> d.called, result |-> d.result,
                         reg_before |-> <<registry.reg>>]]
    /\ UNCHANGED <<cluster, sf, dm, msg, task, run, events, api_log, thr, dmcls, broker,
                 executor, factory, routes>>

\* clear_registry, lines 155-163
ApiClearRegistry ==
    /\ task.wpc = "dispatcher"
    /\ registry' = [RegistryNew EXCEPT
                      !.last = [NoCall EXCEPT !.op = "clear_registry"]]
    /\ UNCHANGED <<cluster, sf, dm, msg, task, run, events, api_log, thr, dmcls, broker,
                 executor, factory, routes>>

(***************************************************************************)
(* Two threads of one process.  Neither initialize_cluster nor             *)
(* shutdown_cluster nor DeviceManager.__new__ / __init__ takes a lock      *)
(* (the only lock of the package is in                                     *)
(* SecretFlowClusterInitializer.__new__), so a thread switch can fall      *)
(* between any two of their statements.                                    *)
(***************************************************************************)
InitThreads ==
    /\ InitCommon
    /\ msg = [spu |-> "none", heu |-> FALSE, task_type |-> "psi"]
    /\ task = [TaskNew("threads") EXCEPT !.wpc = "threads"]

AtPc(t, p) == task.wpc = "threads" /\ thr[t].pc = p

Goto(t, p) == thr' = [thr EXCEPT ![t].pc = p]

\* a thread calls one of the three operations
ThreadCall(t, p) ==
    /\ AtPc(t, "idle")
    /\ thr[t].ops < MaxThreadOps
    /\ thr' = [thr EXCEPT ![t].pc = p, ![t].ops = @ + 1]
    /\ UNCHANGED <<cluster, sf, dm, msg, task, run, events, api_log, dmcls, broker, registry,
                 executor, factory, routes>>

\* initialize_cluster, lines 48-50: the flag is read; if set, return True
ThreadInitializeCheck(t) ==
    /\ AtPc(t, "ic_check")
    /\ Goto(t, IF cluster.cluster_initialized THEN "idle" ELSE "ic_call")
    /\ UNCHANGED <<cluster, sf, dm, msg, task, run, events, api_log, dmcls, broker, registry,
                 executor, factory, routes>>

\* line 60: sf.init is entered
ThreadInitializeEnter(t) ==
    /\ AtPc(t, "ic_call")
    /\ Goto(t, "in_sf_init")
    /\ sf' = [sf EXCEPT !.init_calls = @ + 1]
    /\ UNCHANGED <<cluster, dm, msg, task, run, events, api_log, dmcls, broker, registry,
                 executor, factory, routes>>

\* lines 62-63 after sf.init returned, lines 70-76 after it raised
ThreadInitializeLeave(t, o) ==
    /\ AtPc(t, "in_sf_init")
    /\ Goto(t, "idle")
    /\ cluster' = IF o = "ok"
                  THEN [cluster_initialized |-> TRUE,
                        initialization_time |-> sf.init_calls]
                  ELSE [cluster EXCEPT !.cluster_initialized = FALSE]
    /\ UNCHANGED <<sf, dm, msg, task, run, events, api_log, dmcls, broker, registry,
                 executor, factory, routes>>

\* shutdown_cluster, lines 80-82: the flag is read; if clear, return
ThreadShutdownCheck(t) ==
    /\ AtPc(t, "sc_check")
    /\ Goto(t, IF cluster.cluster_initialized THEN "sc_call" ELSE "idle")
    /\ UNCHANGED <<cluster, sf, dm, msg, task, run, events, api_log, dmcls, broker, registry,
                 executor, factory, routes>>

\* line 90: sf.shutdown is entered
ThreadShutdownEnter(t) ==
    /\ AtPc(t, "sc_call")
    /\ Goto(t, "in_sf_shutdown")
    /\ sf' = [sf EXCEPT !.shutdown_calls = @ + 1]
    /\ UNCHANGED <<cluster, dm, msg, task, run, events, api_log, dmcls, broker, registry,
                 executor, factory, routes>>

\* line 92 after sf.shutdown returned, line 98 after it raised
ThreadShutdownLeave(t) ==
    /\ AtPc(t, "in_sf_shutdown")
    /\ Goto(t, "idle")
    /\ cluster' = [cluster EXCEPT !.cluster_initialized = FALSE]
    /\ UNCHANGED <<sf, dm, msg, task, run, events, api_log, dmcls, broker, registry,
                 executor, factory, routes>>

\* DeviceManager.__new__, line 20
ThreadNewCheck(t) ==
    /\ AtPc(t, "new_check")
    /\ Goto(t, IF dmcls._instance = None THEN "new_create" ELSE "new_return")
    /\ UNCHANGED <<cluster, sf, dm, msg, task, run, events, api_log, dmcls, broker, registry,
                 executor, factory, routes>>

\* line 21: a new object becomes cls._instance
ThreadNewCreate(t) ==
    /\ AtPc(t, "new_create")
    /\ Goto(t, "new_return")
    /\ dmcls' = [dmcls EXCEPT !._instance = dmcls.created + 1,
                              !.created = @ + 1,
                              !.fields = Append(@, 0)]
    /\ UNCHANGED <<cluster, sf, dm, msg, task, run, events, api_log, broker, registry,
                 executor, factory, routes>>

\* line 22: cls._instance is read again and is the object __init__ gets
ThreadNewReturn(t) ==
    /\ AtPc(t, "new_return")
    /\ thr' = [thr EXCEPT ![t].pc = "init_check", ![t].self = dmcls._instance]
    /\ UNCHANGED <<cluster, sf, dm, msg, task, run, events, api_log, dmcls, broker, registry,
                 executor, factory, routes>>

\* DeviceManager.__init__, line 25; when the flag is set the caller gets self
ThreadInitCheck(t) ==
    /\ AtPc(t, "init_check")
    /\ thr' = IF dmcls._initialized
              THEN [thr EXCEPT ![t].pc = "idle", ![t].inst = thr[t].self]
              ELSE [thr EXCEPT ![t].pc = "init_fields"]
    /\ UNCHANGED <<cluster, sf, dm, msg, task, run, events, api_log, dmcls, broker, registry,
                 executor, factory, routes>>

\* lines 26-27: self._devices = {} and self._device_init_times = {}
ThreadInitFields(t) ==
    /\ AtPc(t, "init_fields")
    /\ Goto(t, "init_flag")
    /\ dmcls' = [dmcls EXCEPT !.fields[thr[t].self] = @ + 1]
    /\ UNCHANGED <<cluster, sf, dm, msg, task, run, events, api_log, broker, registry,
                 executor, factory, routes>>

\* line 28, then the caller gets self
ThreadInitFlag(t) ==
    /\ AtPc(t, "init_flag")
    /\ thr' = [thr EXCEPT ![t].pc = "idle", ![t].inst = thr[t].self]
    /\ dmcls' = [dmcls EXCEPT !._initialized = TRUE]
    /\ UNCHANGED <<cluster, sf, dm, msg, task, run, events, api_log, broker, registry,
                 executor, factory, routes>>

(***************************************************************************)
(* One worker and its queue.  Celery hands a message to the worker while   *)
(* the worker holds fewer unacknowledged messages than                     *)
(* worker_prefetch_multiplier * worker_concurrency, and starts a body      *)
(* while fewer than worker_concurrency bodies run.                         *)
(***************************************************************************)
InitQueue ==
    /\ InitCommon
    /\ msg = [spu |-> "none", heu |-> FALSE, task_type |-> "psi"]
    /\ task = [TaskNew("queue") EXCEPT !.wpc = "queue"]

\* the worker is started: by worker.py (solo) or on celery_app.py alone
WorkerStart(pool) ==
    /\ task.wpc = "queue"
    /\ task' = [task EXCEPT !.wpc = "consuming"]
    /\ broker' = BrokerNew(pool)
    /\ UNCHANGED <<cluster, sf, dm, msg, run, events, api_log, thr, dmcls, registry,
                 executor, factory, routes>>

InState(st) == {q \in QueueMessages : broker.m[q].st = st}

Unacked == InState("reserved") \cup InState("running")

\* celery_app.py lines 40-41: the prefetch window of the consumer
Deliver(q) ==
    /\ task.wpc = "consuming"
    /\ broker.m[q].st = "queued"
    /\ broker.m[q].deliveries < MaxDeliveries
    /\ Cardinality(Unacked) < worker_prefetch_multiplier * worker_concurrency
    /\ broker' = [broker EXCEPT !.m[q].st = "reserved", !.m[q].deliveries = @ + 1]
    /\ UNCHANGED <<cluster, sf, dm, msg, task, run, events, api_log, thr, dmcls, registry,
                 executor, factory, routes>>

\* execute_secretflow_celery_task is entered in a free pool slot
BodyStart(q) ==
    /\ task.wpc = "consuming"
    /\ broker.m[q].st = "reserved"
    /\ Cardinality(InState("running")) < worker_concurrency
    /\ broker' = [broker EXCEPT !.m[q].st = "running", !.m[q].over_limit = FALSE]
    /\ UNCHANGED <<cluster, sf, dm, msg, task, run, events, api_log, thr, dmcls, registry,
                 executor, factory, routes>>

\* acks_late (celery_tasks.py line 199): the message is acknowledged when the
\* body has returned or raised; self.retry has sent the retry as a new
\* message before the body raises Retry
BodyEnd(q, outcome) ==
    /\ task.wpc = "consuming"
    /\ broker.m[q].st = "running"
    /\ broker' = [broker EXCEPT !.m[q].st = IF outcome = "RETRY" THEN "queued" ELSE "acked",
                                !.m[q].last_end = outcome]
    /\ UNCHANGED <<cluster, sf, dm, msg, task, run, events, api_log, thr, dmcls, registry,
                 executor, factory, routes>>

\* reject_on_worker_lost (line 200): the message of a lost worker process is
\* rejected with requeue
WorkerLost(q) ==
    /\ task.wpc = "consuming"
    /\ broker.m[q].st = "running"
    /\ broker' = [broker EXCEPT !.m[q].st = "queued", !.m[q].last_end = "worker_lost"]
    /\ UNCHANGED <<cluster, sf, dm, msg, task, run, events, api_log, thr, dmcls, registry,
                 executor, factory, routes>>

\* time_limit (line 41) under the prefork pool: the pool process is killed
\* and the request's timeout handler acknowledges the message, because
\* acks_on_failure_or_timeout is left at its default (enabled)
HardTimeout(q) ==
    /\ task.wpc = "consuming"
    /\ broker.pool = "prefork"
    /\ broker.m[q].st = "running"
    /\ broker' = [broker EXCEPT !.m[q].st = IF acks_on_failure_or_timeout
                                            THEN "acked" ELSE "queued",
                                !.m[q].last_end = "hard_timeout"]
    /\ UNCHANGED <<cluster, sf, dm, msg, task, run, events, api_log, thr, dmcls, registry,
                 executor, factory, routes>>

\* time_limit under the solo pool (worker.py line 93): the body runs in the
\* worker's own process and no time limit is enforced
PastTimeLimit(q) ==
    /\ task.wpc = "consuming"
    /\ broker.pool = "solo"
    /\ broker.m[q].st = "running"
    /\ ~broker.m[q].over_limit
    /\ broker' = [broker EXCEPT !.m[q].over_limit = TRUE]
    /\ UNCHANGED <<cluster, sf, dm, msg, task, run, events, api_log, thr, dmcls, registry,
                 executor, factory, routes>>

(***************************************************************************)
(* Specifications                                                          *)
(***************************************************************************)
(***************************************************************************)
(* A client of one PSIExecutor                                             *)
(***************************************************************************)
InitExecutor ==
    /\ InitCommon
    /\ msg = [spu |-> "none", heu |-> FALSE, task_type |-> "psi"]
    /\ task = [TaskNew("executor") EXCEPT !.wpc = "executor"]

\* PSIExecutor(task_request_id, task_config)
ExecutorConstruct(task_config) ==
    /\ task.wpc = "executor"
    /\ executor = ExecutorNew("none")
    /\ executor' = ExecutorNew(task_config)
    /\ UNCHANGED <<cluster, sf, dm, msg, task, run, events, api_log, thr, dmcls,
                   broker, registry, factory, routes>>

ExecutorValidateParams ==
    /\ task.wpc = "executor"
    /\ executor.task_config \in PsiConfigs
    /\ Len(executor.log) < MaxExecutorCalls
    /\ LET v == validate_params(executor)
       IN executor' = [v.e EXCEPT !.log = Append(@,
              [op |-> "validate_params", raised |-> v.raised,
               validation_ran |-> TRUE, validation_raised |-> v.raised,
               skipped |-> FALSE, body_reached |-> FALSE])]
    /\ UNCHANGED <<cluster, sf, dm, msg, task, run, events, api_log, thr, dmcls,
                   broker, registry, factory, routes>>

ExecutorExecute(o) ==
    /\ task.wpc = "executor"
    /\ executor.task_config \in PsiConfigs
    /\ Len(executor.log) < MaxExecutorCalls
    /\ LET x == execute(executor, o)
       IN executor' = [x.e EXCEPT !.log = Append(@,
              [op |-> "execute", raised |-> x.raised,
               validation_ran |-> x.validation_ran,
               validation_raised |-> x.validation_raised,
               skipped |-> x.skipped, body_reached |-> x.body_reached])]
    /\ UNCHANGED <<cluster, sf, dm, msg, task, run, events, api_log, thr, dmcls,
                   broker, registry, factory, routes>>

(***************************************************************************)
(* A client of AlgorithmRegistry and AlgorithmFactory                      *)
(***************************************************************************)
InitFactory ==
    /\ InitCommon
    /\ msg = [spu |-> "none", heu |-> FALSE, task_type |-> "psi"]
    /\ task = [TaskNew("factory") EXCEPT !.wpc = "factory"]

FactoryRegister(name, executor_class, force) ==
    /\ task.wpc = "factory"
    /\ LET g == register(factory.reg, name, executor_class, force)
       IN factory' = [factory EXCEPT
              !.reg = g.reg,
              !.last = [op |-> "register", name |-> name, raised |-> NoExc,
                        ret |-> g.ret, instance_of |-> NoClass]]
    /\ UNCHANGED <<cluster, sf, dm, msg, task, run, events, api_log, thr, dmcls,
                   broker, registry, executor, routes>>

FactoryUnregister(name) ==
    /\ task.wpc = "factory"
    /\ LET g == unregister(factory.reg, name)
       IN factory' = [factory EXCEPT
              !.reg = g.reg,
              !.last = [op |-> "unregister", name |-> name, raised |-> NoExc,
                        ret |-> g.ret, instance_of |-> NoClass]]
    /\ UNCHANGED <<cluster, sf, dm, msg, task, run, events, api_log, thr, dmcls,
                   broker, registry, executor, routes>>

FactoryCreateExecutor(task_type, compatible) ==
    /\ task.wpc = "factory"
    /\ LET c == create_executor(factory, task_type, compatible)
       IN factory' = [factory EXCEPT
              !.cache = c.cache,
              !.last = [op |-> "create_executor", name |-> task_type,
                        raised |-> c.raised, ret |-> c.raised = NoExc,
                        instance_of |-> c.instance_of]]
    /\ UNCHANGED <<cluster, sf, dm, msg, task, run, events, api_log, thr, dmcls,
                   broker, registry, executor, routes>>

FactoryClearCache ==
    /\ task.wpc = "factory"
    /\ factory' = [factory EXCEPT
           !.cache = [n \in DOMAIN factory.cache |-> NoClass],
           !.last = [op |-> "clear_cache", name |-> "", raised |-> NoExc,
                    ret |-> FALSE, instance_of |-> NoClass]]
    /\ UNCHANGED <<cluster, sf, dm, msg, task, run, events, api_log, thr, dmcls,
                   broker, registry, executor, routes>>

(***************************************************************************)
(* A caller of TaskRouteConfig.get_task_config                             *)
(***************************************************************************)
InitRoutes ==
    /\ InitCommon
    /\ msg = [spu |-> "none", heu |-> FALSE, task_type |-> "psi"]
    /\ task = [TaskNew("routes") EXCEPT !.wpc = "routes"]

RoutesGetTaskConfig(task_name) ==
    /\ task.wpc = "routes"
    /\ ~routes.called
    /\ routes' = [task_name |-> task_name, called |-> TRUE,
                  result |-> get_task_config(task_name)]
    /\ UNCHANGED <<cluster, sf, dm, msg, task, run, events, api_log, thr, dmcls,
                   broker, registry, executor, factory>>

\* the steps that publish nothing
NextSilent ==
    \/ DirectCall
    \/ \E o \in {"ok", "fail"} : StepCluster(o)
    \/ \E created \in SUBSET Parties, spu_ok \in BOOLEAN, heu_ok \in BOOLEAN :
           StepDevices(created, spu_ok, heu_ok, FALSE)
    \/ \E h \in HandlerErrors \cup {"ok", "ValueError"} : StepDispatch(h)
    \/ StepReturn
    \/ StepFinallyDevices
    \/ \E o \in {"ok", "fail"} : StepFinallyCluster(o)
    \/ WrapperFinish
    \/ DirectFinish

\* every status event is delivered
Next ==
    \/ NextSilent
    \/ WrapperStart("ok")
    \/ StepStart("ok")
    \/ StepClusterOk("ok")
    \/ StepDevicesOk("ok")
    \/ \E total_time \in {0, 1} : StepMetrics("ok", total_time)
    \/ StepExcept("ok")

Spec == Init /\ [][Next]_vars

\* any _publish_status call may fail
NextNotifier ==
    \/ NextSilent
    \/ \E o \in PublishOutcomes :
           \/ WrapperStart(o)
           \/ StepStart(o)
           \/ StepClusterOk(o)
           \/ StepDevicesOk(o)
           \/ \E total_time \in {0, 1} : StepMetrics(o, total_time)
           \/ StepExcept(o)

SpecNotifier == Init /\ [][NextNotifier]_vars

NextTimeout ==
    \/ Next
    \/ SignalInTry
    \/ \E published \in BOOLEAN : SignalInExcept(published)
    \/ \E inside \in BOOLEAN : SignalInFinally(inside)
    \/ StepCluster("timeout")
    \/ \E created \in SUBSET Parties, spu_ok \in BOOLEAN, heu_ok \in BOOLEAN :
           StepDevices(created, spu_ok, heu_ok, TRUE)
    \/ \E h \in HandlerSignals : StepDispatch(h)
    \/ StepFinallyCluster("timeout")

SpecTimeout == Init /\ [][NextTimeout]_vars

NextCluster ==
    \/ \E o \in {"ok", "fail"} : ApiInitialize(o)
    \/ \E o \in {"ok", "fail"} : ApiShutdown(o)

SpecCluster == InitCluster /\ [][NextCluster]_vars

NextDevices ==
    \/ \E created \in SUBSET Parties, spu_ok \in BOOLEAN, heu_ok \in BOOLEAN :
           ApiInitializeDevices(created, spu_ok, heu_ok)
    \/ \E fails \in SUBSET HasShutdown : ApiCleanupDevices(fails)

SpecDevices == InitDevices /\ [][NextDevices]_vars

NextDispatcher ==
    \/ \E t \in RegTypes, f \in Handlers : ApiRegisterTask(t, f)
    \/ \E t \in RegTypes, devices \in {{"alice"}, {"alice", "bob", "spu"}},
          o \in HandlerErrors \cup {"ok"} :
           ApiDispatch(t, devices, "task_config", o)
    \/ ApiClearRegistry

SpecDispatcher == InitDispatcher /\ [][NextDispatcher]_vars

NextThreads ==
    \E t \in Threads :
        \/ \E p \in {"ic_check", "sc_check", "new_check"} : ThreadCall(t, p)
        \/ ThreadInitializeCheck(t)
        \/ ThreadInitializeEnter(t)
        \/ \E o \in {"ok", "fail"} : ThreadInitializeLeave(t, o)
        \/ ThreadShutdownCheck(t)
        \/ ThreadShutdownEnter(t)
        \/ ThreadShutdownLeave(t)
        \/ ThreadNewCheck(t)
        \/ ThreadNewCreate(t)
        \/ ThreadNewReturn(t)
        \/ ThreadInitCheck(t)
        \/ ThreadInitFields(t)
        \/ ThreadInitFlag(t)

SpecThreads == InitThreads /\ [][NextThreads]_vars

NextQueue ==
    \/ \E pool \in Pools : WorkerStart(pool)
    \/ \E q \in QueueMessages :
           \/ Deliver(q)
           \/ BodyStart(q)
           \/ \E outcome \in {"SUCCESS", "FAILURE", "RETRY"} : BodyEnd(q, outcome)
           \/ WorkerLost(q)
           \/ HardTimeout(q)
           \/ PastTimeLimit(q)

SpecQueue == InitQueue /\ [][NextQueue]_vars

NextExecutor ==
    \/ \E c \in PsiConfigs : ExecutorConstruct(c)
    \/ ExecutorValidateParams
    \/ \E o \in {"ok", "fail"} : ExecutorExecute(o)

SpecExecutor == InitExecutor /\ [][NextExecutor]_vars

NextFactory ==
    \/ \E n \in AlgoNames, c \in {"PSIExecutor", "LogisticRegressionExecutor", "OtherExecutor",
                  "not an executor class"},
          force \in BOOLEAN : FactoryRegister(n, c, force)
    \/ \E n \in AlgoNames : FactoryUnregister(n)
    \/ \E t \in DOMAIN factory.cache, compatible \in BOOLEAN :
           FactoryCreateExecutor(t, compatible)
    \/ FactoryClearCache

SpecFactory == InitFactory /\ [][NextFactory]_vars

\* a task name is any sequence of at most MaxNameLen of these pieces
NextRoutes ==
    \E n \in UNION {[1..k -> {"tasks", ".", "web", "secretflow", "health_check"}] :
                        k \in 0..MaxNameLen} :
        RoutesGetTaskConfig(n)

SpecRoutes == InitRoutes /\ [][NextRoutes]_vars

(***************************************************************************)
(* Properties                                                              *)
(***************************************************************************)
Count(seq, x) == Cardinality({i \in 1..Len(seq) : seq[i] = x})

Exited == task.wpc = "running" /\ run.pc = "s_exit"

C3_NothingOutlivesRun ==
    Exited => get_initialized_devices(dm) = {} /\ ~is_cluster_ready(cluster)

Published(status, stage) ==
    \E k \in 1..Len(events) : events[k].status = status /\ events[k].stage = stage

Attempts == Len(task.outcomes)

\* C4: an attempt is handed back for retry only if it raised ClusterInitError
\* or DeviceConfigError; an attempt that raised any other error is the last
\* one: it is reported as failed at once and the orchestrator is not run again
C4_OnlyInfraErrorsRetried ==
    task.caller = "celery" =>
        \A i \in 1..Attempts :
            /\ task.outcomes[i] = "RETRY" => task.attempt_errs[i] \in Retryable
            /\ task.attempt_errs[i] \notin Retryable \cup {NoExc} =>
                   /\ task.outcomes[i] = "FAILURE"
                   /\ i = Attempts
                   /\ task.wpc = "failed"
                   /\ task.runs <= i
                   /\ Published("FAILURE", "task_failed_final")

\* a retried attempt followed by an attempt that failed for good at once
C4_Witness ==
    /\ task.caller = "celery"
    /\ task.attempt_errs = <<"ClusterInitError", "RuntimeError">>
    /\ task.outcomes = <<"RETRY", "FAILURE">>
    /\ task.runs = 2

AllDeviceConfigError ==
    \A i \in 1..Len(task.attempt_errs) : task.attempt_errs[i] = "DeviceConfigError"

\* C5: the orchestrator runs at most max_retries + 1 = 4 times for a message;
\* when every attempt fails with DeviceConfigError the first max_retries
\* attempts are retried and attempt max_retries + 1 is the terminal FAILURE
C5_BoundedRetries ==
    task.caller = "celery" =>
        /\ task.runs <= max_retries + 1
        /\ task.retries <= max_retries
        /\ AllDeviceConfigError =>
               /\ Attempts <= max_retries + 1
               /\ \A i \in 1..Attempts :
                      task.outcomes[i] = IF i <= max_retries THEN "RETRY" ELSE "FAILURE"
               /\ Attempts = max_retries + 1 =>
                      task.wpc = "failed" /\ Published("FAILURE", "task_failed_final")

\* four attempts that all failed with DeviceConfigError
C5_Witness ==
    /\ task.caller = "celery"
    /\ AllDeviceConfigError
    /\ Attempts = max_retries + 1
    /\ task.runs = max_retries + 1
    /\ task.wpc = "failed"

\* C6: an attempt during which the soft-timeout signal was delivered ends as a
\* failure that is not retried and for which FAILURE/task_timeout was published
C6_TimeoutIsTerminalFailure ==
    (/\ task.caller = "celery"
     /\ run.pc = "idle"
     /\ Attempts > 0
     /\ task.last_timed_out) =>
        /\ task.outcomes[Attempts] = "FAILURE"
        /\ Published("FAILURE", "task_timeout")

\* C7: initialize_devices is called only after initialize_cluster returned
\* success in the same run, and TaskDispatcher.dispatch only after
\* initialize_devices returned a non-empty DeviceSet
C7_PhasesInOrder ==
    /\ run.init_devices # "no" => run.init_cluster_ok
    /\ run.dispatched => run.init_devices = "nonempty" /\ run.devices # {}

\* a run that went through all three phases
C7_Witness ==
    /\ Exited
    /\ run.init_cluster_ok
    /\ run.init_devices = "nonempty"
    /\ run.dispatched

\* C8: whenever a run has called both, cleanup_devices came before
\* shutdown_cluster
C8_DevicesBeforeCluster ==
    \A i, j \in 1..Len(run.calls) :
        (run.calls[i] = "cleanup_devices" /\ run.calls[j] = "shutdown_cluster") => i < j

\* a run that failed in device initialization and released both
C8_Witness ==
    /\ Exited
    /\ run.exc = "DeviceConfigError"
    /\ Count(run.calls, "cleanup_devices") = 1
    /\ Count(run.calls, "shutdown_cluster") = 1

\* C9: when an exception is raised inside the final cleanup, the run still
\* ends the way it entered the finally block: a run that succeeded returns its
\* TaskResult and a run that failed raises its original error
C9_CleanupFailureSwallowed ==
    (Exited /\ run.cleanup_raised) =>
        /\ run.exc = run.at_finally
        /\ run.at_finally = NoExc => run.result

\* a successful run whose cleanup_devices raised
C9_Witness ==
    /\ Exited
    /\ run.cleanup_raised
    /\ run.calls = <<"cleanup_devices">>
    /\ run.result
    /\ run.exc = NoExc

\* C10: of two initialize_cluster calls in a row, the first of which returned
\* success, the second returns success without running the setup, so the setup
\* ran once if the manager was not ready before the first call
C10_InitializeTwiceSetsUpOnce ==
    \A i \in 1..(Len(api_log) - 1) :
        (/\ api_log[i].op = "initialize_cluster"
         /\ api_log[i].ret
         /\ api_log[i + 1].op = "initialize_cluster") =>
            /\ api_log[i + 1].ret
            /\ api_log[i + 1].setup = 0
            /\ api_log[i].setup + api_log[i + 1].setup =
                   IF api_log[i].ready_before THEN 0 ELSE 1

\* two calls in a row on a fresh manager
C10_Witness ==
    /\ Len(api_log) = 2
    /\ api_log[1].op = "initialize_cluster" /\ api_log[1].ret
    /\ api_log[2].op = "initialize_cluster" /\ api_log[2].ret
    /\ sf.init_calls = 1
    /\ is_cluster_ready(cluster)

\* C11: shutdown_cluster never raises and always leaves the manager not
\* ready, whether or not the teardown succeeded; a second shutdown_cluster
\* right after it runs no teardown, and an initialize_cluster right after it
\* runs the setup again
C11_ShutdownIdempotent ==
    \A i \in 1..Len(api_log) :
        api_log[i].op = "shutdown_cluster" =>
            /\ ~api_log[i].raised
            /\ ~api_log[i].ready_after
            /\ i < Len(api_log) =>
                   IF api_log[i + 1].op = "shutdown_cluster"
                   THEN /\ api_log[i + 1].setup = 0
                        /\ ~api_log[i + 1].raised
                        /\ ~api_log[i + 1].ready_after
                   ELSE /\ api_log[i + 1].setup = 1
                        /\ api_log[i + 1].ret = (api_log[i + 1].outcome = "ok")

\* a failed teardown followed by a second shutdown and a new initialization
C11_Witness ==
    /\ Len(api_log) = 4
    /\ api_log[1].op = "initialize_cluster" /\ api_log[1].ret
    /\ api_log[2].op = "shutdown_cluster" /\ api_log[2].outcome = "fail"
    /\ api_log[3].op = "shutdown_cluster" /\ api_log[3].setup = 0
    /\ api_log[4].op = "initialize_cluster" /\ api_log[4].ret
    /\ sf.init_calls = 2
    /\ sf.shutdown_calls = 1

\* C12: when the cluster setup failed, initialize_cluster has returned False
\* and left the manager not ready, execute_secretflow_task raises
\* ClusterInitError, and the wrapper treats that error as retryable: the
\* attempt is retried unless it was attempt max_retries + 1
C12_SetupFailureRetryable ==
    /\ (InRun("s_except") /\ run.cluster_initializer /\ ~run.init_cluster_ok) =>
           /\ run.exc = "ClusterInitError"
           /\ ~is_cluster_ready(cluster)
    /\ task.caller = "celery" =>
           \A i \in 1..Attempts :
               task.attempt_errs[i] = "ClusterInitError" =>
                   task.outcomes[i] = IF i <= max_retries THEN "RETRY" ELSE "FAILURE"

\* a first attempt whose cluster setup failed and that was handed back for retry
C12_Witness ==
    /\ task.caller = "celery"
    /\ task.attempt_errs = <<"ClusterInitError">>
    /\ task.outcomes = <<"RETRY">>
    /\ task.retries = 1
    /\ sf.init_calls = 1
    /\ ~is_cluster_ready(cluster)

\* C13: of two threads calling initialize_cluster or shutdown_cluster
\* concurrently only one is inside the underlying setup (sf.init) or
\* teardown (sf.shutdown) at a time; the other finds the target state reached.
C13_OneSetupAtATime ==
    Cardinality({t \in Threads : thr[t].pc \in {"in_sf_init", "in_sf_shutdown"}}) <= 1

\* C14: every thread that constructed the DeviceManager got the same
\* instance, and the device map of that instance was assigned exactly once.
C14_OneInstanceCreatedOnce ==
    /\ \A t1, t2 \in Threads :
           (thr[t1].inst # None /\ thr[t2].inst # None) => thr[t1].inst = thr[t2].inst
    /\ \A t \in Threads :
           thr[t].inst # None => dmcls.fields[thr[t].inst] = 1

\* C15: at most one task body is in progress in the worker at any time; a
\* second message is started only when the current one has returned, failed
\* or been handed back for retry.
C15_OneBodyAtATime ==
    /\ Cardinality(InState("running")) <= 1
    /\ \A q \in InState("running") : Unacked = {q}

C15_Witness ==
    \E q1, q2 \in QueueMessages :
        /\ q1 # q2
        /\ broker.m[q1].st = "running"
        /\ broker.m[q2].st = "queued"
        /\ broker.m[q2].last_end = "RETRY"

\* C16: a message is acknowledged only after its run has returned; a run
\* ended by a worker crash or by the hard timeout leaves the message
\* unacknowledged, to be redelivered; no body runs past the hard timeout.
C16_LateAckAndRedelivery ==
    \A q \in QueueMessages :
        /\ broker.m[q].st = "acked" => broker.m[q].last_end \in {"SUCCESS", "FAILURE"}
        /\ broker.m[q].last_end \in {"worker_lost", "hard_timeout"} =>
               broker.m[q].st # "acked"
        /\ ~broker.m[q].over_limit

\* C17: the delay before the n-th retry follows exponential backoff with
\* jitter in the attempt number (it lies between 0 and the backoff interval
\* of that attempt) and never exceeds retry_backoff_max.
C17_BackoffWithJitter ==
    \A i \in 1..Len(task.countdowns) :
        /\ task.countdowns[i] <= retry_backoff_max
        /\ task.countdowns[i] <= get_exponential_backoff_interval(i - 1)
        /\ retry_jitter => task.countdowns[i] >= 0

\* C18: every failure of the device-initialization phase, an exception
\* raised by initialize_devices and an empty DeviceSet alike, reaches the
\* wrapper as DeviceConfigError.
C18_DeviceFailureIsDeviceConfigError ==
    (InRun("s_except") /\ run.init_devices = "called") =>
        run.exc = "DeviceConfigError"

\* C19: a DeviceSet returned by initialize_devices holds the SPU device
\* whenever an spu_config was given and the HEU device whenever a heu_config
\* was given: a present but invalid configuration fails the whole call.
C19_InvalidConfigFailsCall ==
    run.init_devices = "nonempty" =>
        /\ msg.spu \in SpuConstructible \cup {"no_cluster_def"} =>
               "spu" \in run.devices
        /\ msg.heu => "heu" \in run.devices

\* C20: a party whose device handle could not be created is left out of the
\* returned DeviceSet, the devices of the other parties are returned, and
\* initialize_devices does not fail because of that party.
C20_FailedPartyOmitted ==
    /\ run.pyu_created # {} =>
           /\ run.init_devices = "nonempty"
           /\ run.devices \cap Parties = run.pyu_created
    /\ (run.init_devices = "called" /\ msg.spu \in SpuConstructible) =>
           /\ run.pyu_created = {}
           /\ run.exc = "DeviceConfigError"

C20_Witness ==
    /\ run.init_devices = "nonempty"
    /\ run.pyu_created # {}
    /\ run.pyu_created # PartiesOf(msg.spu)
    /\ "spu" \notin run.devices

\* C21: cleanup_devices calls the shutdown hook of every held device that
\* has one, also after one of them failed, never raises, and leaves the
\* manager with no devices and no recorded init times.
C21_CleanupDevicesTotal ==
    \A i \in 1..Len(api_log) :
        api_log[i].op = "cleanup_devices" =>
            /\ api_log[i].shut = api_log[i].held_before \cap HasShutdown
            /\ ~api_log[i].raised
            /\ api_log[i].held_after = {}
            /\ api_log[i].times_after = {}

\* a cleanup of a manager holding PYU, SPU and HEU devices during which the
\* shutdown of the SPU failed
C21_Witness ==
    \E i \in 1..Len(api_log) :
        /\ api_log[i].op = "cleanup_devices"
        /\ api_log[i].env[1] = {"spu"}
        /\ api_log[i].held_before = Parties \cup {"spu", "heu"}
        /\ "heu" \in api_log[i].shut

\* C22: initialize_devices called right after cleanup_devices with the
\* configuration of an earlier initialize_devices returns the same device
\* names as that earlier call did (the constructors behaving alike), and
\* the manager then holds exactly the returned devices.
C22_CleanupThenInitializeReproduces ==
    \A j \in 2..Len(api_log) :
        (/\ api_log[j].op = "initialize_devices"
         /\ api_log[j - 1].op = "cleanup_devices"
         /\ ~api_log[j].raised) =>
            /\ api_log[j].held_after = api_log[j].ret
            /\ \A i \in 1..(j - 1) :
                   (/\ api_log[i].op = "initialize_devices"
                    /\ api_log[i].env = api_log[j].env) =>
                       api_log[i].ret = api_log[j].ret

C22_Witness ==
    /\ Len(api_log) = 3
    /\ api_log[1].op = "initialize_devices"
    /\ api_log[1].ret = {"alice", "spu"}
    /\ api_log[2].op = "cleanup_devices"
    /\ api_log[3].op = "initialize_devices"
    /\ api_log[3].ret = {"alice", "spu"}

\* C23: registering a task type that is already registered raises ValueError
\* and leaves the registry as it was; the function of the first registration
\* stays registered and is the one dispatch calls.
C23_DuplicateRegistrationRejected ==
    LET l == registry.last
    IN /\ (l.op = "register_task" /\ l.reg_before[1][l.task_type] # NoFunc) =>
              /\ l.raised = "ValueError"
              /\ registry.reg = l.reg_before[1]
       /\ \A t \in RegTypes :
              registry.reg[t] # NoFunc => registry.reg[t] = registry.first[t]
       /\ (l.op = "dispatch" /\ registry.reg[l.task_type] # NoFunc) =>
              l.called[1][1] = registry.first[l.task_type]

\* a second registration of "psi" with another function was just rejected
C23_Witness ==
    /\ registry.last.op = "register_task"
    /\ registry.last.task_type = "psi"
    /\ registry.last.raised = "ValueError"
    /\ registry.last.func = "execute_other"
    /\ registry.reg["psi"] = "execute_psi"

\* C24: dispatch of a task type that is not registered raises ValueError
\* without calling a handler; the message names the requested type and lists
\* exactly the task types registered at that moment.
C24_UnregisteredTypeRejected ==
    LET l == registry.last
    IN (l.op = "dispatch" /\ registry.reg[l.task_type] = NoFunc) =>
           /\ l.raised = "ValueError"
           /\ l.called = <<>>
           /\ l.message = <<l.task_type,
                            {t \in RegTypes : registry.reg[t] # NoFunc}>>

C24_Witness ==
    /\ registry.last.op = "dispatch"
    /\ registry.last.task_type = "unknown_type"
    /\ registry.last.raised = "ValueError"
    /\ registry.last.message[2] = {"psi", "ss_lr"}

\* C25: dispatch of a registered task type calls the function registered
\* for it exactly once with the given devices and configuration, returns its
\* result or raises its error unchanged, and leaves the registry as it was.
C25_DispatchIsPureRouter ==
    LET l == registry.last
        f == registry.reg[l.task_type]
    IN (l.op = "dispatch" /\ l.reg_before[1][l.task_type] # NoFunc) =>
           /\ registry.reg = l.reg_before[1]
           /\ l.called = <<<<f, l.args[1], l.args[2]>>>>
           /\ l.args[3] = "ok" =>
                  /\ l.raised = NoExc
                  /\ l.result = <<f, l.args[1], l.args[2]>>
           /\ l.args[3] # "ok" =>
                  /\ l.raised = l.args[3]
                  /\ l.message = <<f, l.args[3]>>

C25_Witness ==
    /\ registry.last.op = "dispatch"
    /\ registry.last.task_type = "ss_lr"
    /\ registry.last.raised = "ParameterValidationError"
    /\ registry.last.called # <<>>

C27_FailurePublishedBeforeDecision ==
    \A k \in 1..Len(events) :
        events[k].stage \in {"task_retrying", "task_failed_final"} =>
            \E j \in 1..(k - 1) :
                /\ events[j].status = "FAILURE"
                /\ events[j].error_type = events[k].error_type

TerminalStages == {"task_completed", "task_failed_final"}

Milestones ==
    <<"task_started", "cluster_init", "cluster_initialized", "device_creation",
      "devices_initialized", "task_execution", "task_completed">>

MilestoneEvents ==
    SelectSeq(events, LAMBDA e : \E k \in 1..Len(Milestones) : e.stage = Milestones[k])

\* C29: the milestone events of a run are published in the fixed order
\* task_started (0.0), cluster_init (0.1), cluster_initialized (0.2),
\* device_creation (0.3), devices_initialized (0.4), task_execution (0.5),
\* SUCCESS task_completed (1.0), all seven in a successful run; progress
\* never decreases; a milestone is published only after the phase before it
\* completed.
C29_MilestonesInOrder ==
    LET me == MilestoneEvents
    IN /\ Len(me) <= Len(Milestones)
       /\ \A k \in 1..Len(me) :
              /\ me[k].stage = Milestones[k]
              /\ me[k].status = IF k = Len(Milestones) THEN "SUCCESS" ELSE "RUNNING"
              /\ me[k].progress = <<0, 1, 2, 3, 4, 5, 10>>[k]
       /\ \A i, j \in 1..Len(events) :
              (i < j /\ events[i].progress >= 0 /\ events[j].progress >= 0) =>
                  events[i].progress <= events[j].progress
       /\ (task.wpc = "running" /\ Len(me) >= 3) => run.init_cluster_ok
       /\ (task.wpc = "running" /\ Len(me) >= 5) => run.init_devices = "nonempty"
       /\ (task.wpc = "running" /\ Len(me) >= 7) =>
              run.dispatched /\ run.handler_raised = NoExc
       /\ (Exited /\ run.exc = NoExc) => Len(me) = Len(Milestones)

C29_Witness ==
    /\ Exited
    /\ run.exc = NoExc
    /\ Len(MilestoneEvents) = 7
    /\ MilestoneEvents[7] = Ev("SUCCESS", "task_completed", "")

\* the exception a run inside the soft time limit ends with, by the phases it
\* went through
ExpectedExc ==
    IF ~run.init_cluster_ok THEN "ClusterInitError"
    ELSE IF run.init_devices = "called"
         THEN IF msg.spu = "bad_nodes" THEN "TypeError" ELSE "DeviceConfigError"
    ELSE IF msg.task_type = "missing" THEN "AlgorithmError"
    ELSE IF msg.task_type \notin TASK_REGISTRY THEN "ValueError"
    ELSE run.handler_raised

\* C30: a failing _publish_status call raises nothing to its caller: a run
\* in which status events were not delivered ends with the result or error
\* its phases give, and the wrapper decides on that error as it would have.
C30_PublishFailureDiscarded ==
    /\ (Exited /\ run.publish_failed) =>
           /\ run.exc = ExpectedExc
           /\ run.exc = NoExc => run.result
    /\ task.caller = "celery" =>
           \A i \in 1..Attempts :
               /\ task.attempt_errs[i] \in
                      {NoExc, "ClusterInitError", "DeviceConfigError", "TypeError",
                       "ValueError"} \cup HandlerErrors
               /\ task.outcomes[i] = WrapperDecision(task.attempt_errs[i], i - 1)

\* a run that succeeded although status events were lost
C30_Witness ==
    /\ Exited
    /\ run.publish_failed
    /\ run.exc = NoExc
    /\ run.result
    /\ Len(events) >= 7

\* C31: a task whose cluster party list omits a party named by the task
\* parameters fails at dispatch with AlgorithmError, is not retried, and
\* has its devices cleaned and its cluster shut down.
C31_MissingPartyIsAlgorithmError ==
    (Exited /\ run.dispatched /\ msg.task_type \in TASK_REGISTRY
        /\ ~(Parties \subseteq PartiesOf(msg.spu))) =>
        /\ run.exc = "AlgorithmError"
        /\ WrapperDecision(run.exc, task.retries) = "FAILURE"
        /\ run.calls = <<"cleanup_devices", "shutdown_cluster">>
        /\ dm.devices = {}
        /\ ~is_cluster_ready(cluster)

C33_MetricsOncePerHandlerCall ==
    /\ (Exited /\ run.dispatched /\ msg.task_type \in TASK_REGISTRY) =>
           Len(run.metrics) = 1
    /\ \A i \in 1..Len(run.metrics) :
           ({"cluster_init_percentage", "device_init_percentage",
             "algorithm_exec_percentage"} \subseteq run.metrics[i].keys)
               <=> run.metrics[i].total_time # 0

\* C34: get_initialization_time returns None whenever the cluster is not
\* initialized and the duration of the initialization otherwise.
C34_InitTimeOnlyWhileReady ==
    IF is_cluster_ready(cluster)
    THEN get_initialization_time(cluster) # None
    ELSE get_initialization_time(cluster) = None

\* C35: one run of execute_secretflow_task publishes at most one terminal
\* status event: after SUCCESS task_completed no FAILURE task_failed is
\* published by the same run, also when the soft-timeout signal arrives
\* between the SUCCESS publication and the return.
C35_AtMostOneTerminalEvent ==
    \A i \in 1..Len(events) :
        events[i].stage = "task_completed" =>
            \A j \in 1..Len(events) : events[j].stage # "task_failed"

\* C36: after any sequence of initialize_devices and cleanup_devices calls
\* the manager holds exactly the devices the most recent initialize_devices
\* call returned, or none if cleanup_devices was called after it.
C36_HeldIsLastReturned ==
    LET n == Len(api_log)
    IN n > 0 =>
           /\ (api_log[n].op = "initialize_devices" /\ ~api_log[n].raised) =>
                  get_initialized_devices(dm) = api_log[n].ret
           /\ api_log[n].op = "cleanup_devices" =>
                  get_initialized_devices(dm) = {}

\* C37: when an exception leaves cleanup_devices in the final cleanup of a
\* run that obtained the cluster initializer, shutdown_cluster is still
\* called before the run exits.
C37_ShutdownAfterFailedCleanup ==
    (Exited /\ run.cluster_initializer /\ run.cleanup_raised
        /\ run.calls # <<>> /\ run.calls[1] = "cleanup_devices") =>
        Count(run.calls, "shutdown_cluster") = 1

\* C38: _validated is set only if a validate_params call on the executor
\* completed without raising, and an execute call that follows a
\* validate_params call that raised ParameterValidationError does not skip
\* the validation.
C38_ValidatedOnlyAfterSuccess ==
    LET log == executor.log
    IN /\ executor.validated =>
              \E i \in 1..Len(log) :
                  log[i].validation_ran /\ log[i].validation_raised = NoExc
       /\ \A i \in 1..Len(log) :
              (/\ log[i].op = "execute"
               /\ \E j \in 1..(i - 1) :
                      /\ log[j].op = "validate_params"
                      /\ log[j].raised = "ParameterValidationError") =>
                  ~log[i].skipped

\* C39: create_executor returns an instance of the class that is registered
\* for the task type at the time of the call, after any sequence of
\* register (also with force), unregister and create_executor calls.
C39_CreatesRegisteredClass ==
    (factory.last.op = "create_executor" /\ factory.last.raised = NoExc) =>
        factory.last.instance_of = get_executor_class(factory, factory.last.name)

\* C40: when a pattern of the route table is equal to the task name,
\* get_task_config returns the configuration of that pattern, also when a
\* wildcard pattern matches the name too; for
\* tasks.secretflow.health_check this is the 60 s soft / 120 s hard limit.
C40_ExactPatternPreferred ==
    routes.called =>
        /\ \A i \in 1..Len(get_all_routes) :
               get_all_routes[i].pattern = routes.task_name =>
                   routes.result = get_all_routes[i].config
        /\ routes.task_name = <<"tasks", ".", "secretflow", ".", "health_check">> =>
               /\ routes.result.soft_time_limit = 60
               /\ routes.result.time_limit = 120
====
